---- MODULE Spec2Model ----
(***************************************************************************)
(* Security policy and query execution pipeline of the Oracle MCP server  *)
(* (src/database.py, src/config.py).  SQL text is a sequence of one-      *)
(* character strings, so that upper-casing, stripping, whitespace         *)
(* splitting, substring search and the word-boundary patterns are         *)
(* computed on the characters, the way the Python code computes them.     *)
(***************************************************************************)
EXTENDS Integers, Sequences, FiniteSets, TLC

\* ------------------------------------------------------------------------
\* Characters and the str methods the validator uses
\* ------------------------------------------------------------------------

LowerLetters == <<"a", "b", "c", "d", "e", "f", "g", "h", "i", "j", "k", "l", "m", "n", "o", "p", "q", "r", "s", "t", "u", "v", "w", "x", "y", "z">>

UpperLetters == <<"A", "B", "C", "D", "E", "F", "G", "H", "I", "J", "K", "L", "M", "N", "O", "P", "Q", "R", "S", "T", "U", "V", "W", "X", "Y", "Z">>

Digits == {"0", "1", "2", "3", "4", "5", "6", "7", "8", "9"}

\* str.upper() on one character
LowerSet == {LowerLetters[i] : i \in 1..26}

UpperSet == {UpperLetters[i] : i \in 1..26}

UpperOf == [c \in LowerSet |-> UpperLetters[CHOOSE i \in 1..26 : LowerLetters[i] = c]]

UpperChar(c) == IF c \in LowerSet THEN UpperOf[c] ELSE c

\* str.upper()
str_upper(s) == [i \in 1..Len(s) |-> UpperChar(s[i])]

\* str.isspace() on one character (the whitespace str.strip() and str.split() remove)
IsSpace(c) == c \in {" ", "\t", "\n"}

\* a character matched by \w
IsWordChar(c) == c \in LowerSet \cup UpperSet \cup Digits \cup {"_"}

SetMin(S) == CHOOSE x \in S : \A y \in S : x <= y

\* str.strip()
str_strip(s) ==
    IF \A i \in 1..Len(s) : IsSpace(s[i]) THEN <<>>
    ELSE LET b == CHOOSE i \in 1..Len(s) :
                      ~IsSpace(s[i]) /\ \A k \in 1..(i - 1) : IsSpace(s[k])
             e == CHOOSE i \in 1..Len(s) :
                      ~IsSpace(s[i]) /\ \A k \in (i + 1)..Len(s) : IsSpace(s[k])
         IN  SubSeq(s, b, e)

\* str.split()[0], or "" when the split is empty
FirstWord(s) ==
    LET solid == {i \in 1..Len(s) : ~IsSpace(s[i])}
    IN  IF solid = {} THEN <<>>
        ELSE LET b == SetMin(solid)
                 gaps == {i \in b..Len(s) : IsSpace(s[i])}
                 e == IF gaps = {} THEN Len(s) ELSE SetMin(gaps) - 1
             IN  SubSeq(s, b, e)

\* w occurs in s starting at position i
OccursAt(s, w, i) ==
    /\ i >= 1
    /\ i + Len(w) - 1 <= Len(s)
    /\ \A k \in 1..Len(w) : s[i + k - 1] = w[k]

\* the Python test `w in s` on two strings
Contains(s, w) == \E i \in 1..(Len(s) + 1) : OccursAt(s, w, i)

\* str.startswith(w)
StartsWith(s, w) == OccursAt(s, w, 1)

\* \b between position i-1 and position i of s (i in 1..Len(s)+1)
WordBoundary(s, i) ==
    LET before == i > 1 /\ IsWordChar(s[i - 1])
        after == i <= Len(s) /\ IsWordChar(s[i])
    IN  before # after

\* positions i..j-1 of s are one or more whitespace characters (\s+)
SpaceRun(s, i, j) == i < j /\ \A k \in i..(j - 1) : IsSpace(s[k])

\* positions i..j-1 of s are one or more word characters (\w+)
WordRun(s, i, j) == i < j /\ \A k \in i..(j - 1) : IsWordChar(s[k])

\* re.search(r'\bA\s+B\b', s)
SearchTwoWords(s, a, b) ==
    \E i \in 1..Len(s) :
        /\ OccursAt(s, a, i)
        /\ WordBoundary(s, i)
        /\ \E j \in (i + 1)..Len(s) :
               /\ SpaceRun(s, i + Len(a), j)
               /\ OccursAt(s, b, j)
               /\ WordBoundary(s, j + Len(b))

\* re.search(r'\bA\s+\w+\s+B\b', s)
SearchThreeWords(s, a, b) ==
    \E i \in 1..Len(s) :
        /\ OccursAt(s, a, i)
        /\ WordBoundary(s, i)
        /\ \E k \in (i + 1)..Len(s) :
               /\ SpaceRun(s, i + Len(a), k)
               /\ \E m \in (k + 1)..Len(s) :
                      /\ WordRun(s, k, m)
                      /\ \E n \in (m + 1)..Len(s) :
                             /\ SpaceRun(s, m, n)
                             /\ OccursAt(s, b, n)
                             /\ WordBoundary(s, n + Len(b))

\* ------------------------------------------------------------------------
\* Keywords (SQLValidator class attributes)
\* ------------------------------------------------------------------------

KW_SELECT == <<"S", "E", "L", "E", "C", "T">>

KW_WITH == <<"W", "I", "T", "H">>

KW_DESC == <<"D", "E", "S", "C">>

KW_DESCRIBE == <<"D", "E", "S", "C", "R", "I", "B", "E">>

KW_EXPLAIN == <<"E", "X", "P", "L", "A", "I", "N">>

KW_INSERT == <<"I", "N", "S", "E", "R", "T">>

KW_UPDATE == <<"U", "P", "D", "A", "T", "E">>

KW_MERGE == <<"M", "E", "R", "G", "E">>

KW_DELETE == <<"D", "E", "L", "E", "T", "E">>

KW_DROP == <<"D", "R", "O", "P">>

KW_CREATE == <<"C", "R", "E", "A", "T", "E">>

KW_ALTER == <<"A", "L", "T", "E", "R">>

KW_TRUNCATE == <<"T", "R", "U", "N", "C", "A", "T", "E">>

KW_GRANT == <<"G", "R", "A", "N", "T">>

KW_REVOKE == <<"R", "E", "V", "O", "K", "E">>

KW_PURGE == <<"P", "U", "R", "G", "E">>

KW_TABLE == <<"T", "A", "B", "L", "E">>

KW_FROM == <<"F", "R", "O", "M">>

KW_INTO == <<"I", "N", "T", "O">>

KW_SET == <<"S", "E", "T">>

READONLY_OPERATIONS == {KW_SELECT, KW_WITH, KW_DESC, KW_DESCRIBE, KW_EXPLAIN}

WRITE_OPERATIONS == {KW_INSERT, KW_UPDATE, KW_MERGE}

DANGEROUS_OPERATIONS ==
    {KW_DELETE, KW_DROP, KW_CREATE, KW_ALTER, KW_TRUNCATE, KW_GRANT, KW_REVOKE, KW_PURGE}

\* ------------------------------------------------------------------------
\* Statement texts: a leading fragment followed by at most MaxTails fragments
\* ------------------------------------------------------------------------

L_select == <<"s", "e", "l", "e", "c", "t">>

L_Empty == <<>>

L_Blank == <<" ", "\n">>

L_SHOW == <<"S", "H", "O", "W">>

L_SpSELECT == <<"\t", " ", "S", "E", "L", "E", "C", "T">>

T_OneFromDual == <<" ", "1", " ", "F", "R", "O", "M", " ", "D", "U", "A", "L">>

T_StarFromSubDrop == <<" ", "*", " ", "F", "R", "O", "M", " ", "t", " ", "W", "H", "E", "R", "E", " ", "x", " ", "I", "N", " ", "(", "S", "E", "L", "E", "C", "T", " ", "1", " ", "F", "R", "O", "M", " ", "D", "U", "A", "L", ")", ";", " ", "D", "R", "O", "P", " ", "T", "A", "B", "L", "E", " ", "t">>

T_DropTable == <<" ", "1", ";", " ", "D", "R", "O", "P", " ", "T", "A", "B", "L", "E", " ", "t">>

T_deleteFrom == <<" ", "1", ";", " ", "d", "e", "l", "e", "t", "e", " ", "f", "r", "o", "m", " ", "t">>

T_InsertInto == <<" ", "1", ";", " ", "I", "N", "S", "E", "R", "T", " ", "I", "N", "T", "O", " ", "t", " ", "V", "A", "L", "U", "E", "S", " ", "(", "1", ")">>

T_UpdateSet == <<" ", "1", ";", " ", "U", "P", "D", "A", "T", "E", " ", "t", " ", "S", "E", "T", " ", "a", " ", "=", " ", "1">>

T_CreateTable == <<" ", "1", ";", " ", "C", "R", "E", "A", "T", "E", " ", "T", "A", "B", "L", "E", " ", "t">>

T_AlterTable == <<" ", "1", ";", " ", "A", "L", "T", "E", "R", "\t", "T", "A", "B", "L", "E", " ", "t">>

T_MergeInto == <<" ", "1", ";", " ", "M", "E", "R", "G", "E", " ", "I", "N", "T", "O", " ", "t", " ", "U", "S", "I", "N", "G", " ", "s">>

T_TruncateTable == <<" ", "1", ";", " ", "T", "R", "U", "N", "C", "A", "T", "E", "\n", " ", "T", "A", "B", "L", "E", " ", "t">>

T_BackdropTables == <<" ", "B", "A", "C", "K", "D", "R", "O", "P", " ", "T", "A", "B", "L", "E", "S">>

T_IntoUsingDrop == <<" ", "I", "N", "T", "O", " ", "t", " ", "U", "S", "I", "N", "G", " ", "s", ";", " ", "D", "R", "O", "P", " ", "T", "A", "B", "L", "E", " ", "x">>

T_CreatedAt == <<" ", "C", "R", "E", "A", "T", "E", "D", "_", "A", "T", " ", "F", "R", "O", "M", " ", "t">>

T_UpdatedRows == <<" ", "U", "P", "D", "A", "T", "E", "D", "_", "R", "O", "W", "S">>

T_IntoValues == <<" ", "I", "N", "T", "O", " ", "t", " ", "V", "A", "L", "U", "E", "S", " ", "(", "1", ")">>

T_IntoUsing == <<" ", "I", "N", "T", "O", " ", "t", " ", "U", "S", "I", "N", "G", " ", "s">>

T_SetA == <<" ", "t", " ", "S", "E", "T", " ", "a", " ", "=", " ", "1">>

T_FromT == <<" ", "F", "R", "O", "M", " ", "t">>

T_TableT == <<" ", "T", "A", "B", "L", "E", " ", "t">>

T_Star == <<"*", " ", "F", "R", "O", "M", " ", "t">>

T_CommentDrop == <<" ", "1", " ", "-", "-", " ", "D", "R", "O", "P">>

T_Newline == <<"\n">>

MaxTails == 1

Leads ==
    READONLY_OPERATIONS \cup WRITE_OPERATIONS \cup DANGEROUS_OPERATIONS
        \cup {L_select, L_Empty, L_Blank, L_SHOW, L_SpSELECT}

Tails ==
    {T_OneFromDual, T_StarFromSubDrop, T_DropTable, T_deleteFrom,
     T_InsertInto, T_UpdateSet, T_CreateTable, T_AlterTable,
     T_MergeInto, T_TruncateTable, T_BackdropTables, T_IntoUsingDrop,
     T_CreatedAt, T_UpdatedRows, T_IntoValues, T_IntoUsing,
     T_SetA, T_FromT, T_TableT, T_Star,
     T_CommentDrop, T_Newline}

RECURSIVE TailTexts(_)
\* the texts made of at most n fragments of Tails
TailTexts(n) ==
    IF n = 0 THEN {<<>>}
    ELSE LET shorter == TailTexts(n - 1)
         IN  shorter \cup {p \o t : p \in shorter, t \in Tails}

Statements == {l \o b : l \in Leads, b \in TailTexts(MaxTails)}

\* ------------------------------------------------------------------------
\* SQLValidator (src/database.py)
\* ------------------------------------------------------------------------

READONLY == "readonly"

LIMITED_WRITE == "limited_write"

FULL_ACCESS == "full_access"

SecurityMode == {READONLY, LIMITED_WRITE, FULL_ACCESS}

extract_first_keyword(sql_upper) == FirstWord(sql_upper)

\* dangerous_patterns without the DROP TABLE and MERGE INTO patterns
dangerous_patterns_short ==
    {[a |-> KW_TRUNCATE, b |-> KW_TABLE, gap |-> FALSE],
     [a |-> KW_DELETE, b |-> KW_FROM, gap |-> FALSE],
     [a |-> KW_INSERT, b |-> KW_INTO, gap |-> FALSE],
     [a |-> KW_UPDATE, b |-> KW_SET, gap |-> TRUE],
     [a |-> KW_CREATE, b |-> KW_TABLE, gap |-> FALSE],
     [a |-> KW_ALTER, b |-> KW_TABLE, gap |-> FALSE]}

\* the patterns of _validate_readonly; gap is TRUE for the one with \w+ in the middle
dangerous_patterns ==
    {[a |-> KW_DROP, b |-> KW_TABLE, gap |-> FALSE],
     [a |-> KW_TRUNCATE, b |-> KW_TABLE, gap |-> FALSE],
     [a |-> KW_DELETE, b |-> KW_FROM, gap |-> FALSE],
     [a |-> KW_INSERT, b |-> KW_INTO, gap |-> FALSE],
     [a |-> KW_UPDATE, b |-> KW_SET, gap |-> TRUE],
     [a |-> KW_CREATE, b |-> KW_TABLE, gap |-> FALSE],
     [a |-> KW_ALTER, b |-> KW_TABLE, gap |-> FALSE],
     [a |-> KW_MERGE, b |-> KW_INTO, gap |-> FALSE]}

re_search(pattern, s) ==
    IF pattern.gap THEN SearchThreeWords(s, pattern.a, pattern.b)
    ELSE SearchTwoWords(s, pattern.a, pattern.b)

\* validate_readonly without its test of the leading keyword
validate_readonly_no_lead_test(first_keyword, sql_upper) ==
    IF first_keyword = KW_SELECT
    THEN ~\E pattern \in dangerous_patterns : re_search(pattern, sql_upper)
    ELSE ~\E forbidden \in WRITE_OPERATIONS \cup DANGEROUS_OPERATIONS :
             Contains(sql_upper, forbidden)

validate_readonly(first_keyword, sql_upper) ==
    IF first_keyword \notin READONLY_OPERATIONS THEN FALSE
    ELSE IF first_keyword = KW_SELECT
         THEN ~\E pattern \in dangerous_patterns : re_search(pattern, sql_upper)
         ELSE ~\E forbidden \in WRITE_OPERATIONS \cup DANGEROUS_OPERATIONS :
                  Contains(sql_upper, forbidden)

validate_limited_write_lead_only(first_keyword, sql_upper) ==
    first_keyword \in READONLY_OPERATIONS \cup WRITE_OPERATIONS

validate_limited_write(first_keyword, sql_upper) ==
    IF first_keyword \notin READONLY_OPERATIONS \cup WRITE_OPERATIONS THEN FALSE
    ELSE ~\E dangerous \in DANGEROUS_OPERATIONS : Contains(sql_upper, dangerous)

\* validate_sql without its full-access branch
validate_sql_no_full_access(sql, security_mode_arg) ==
    LET sql_upper == str_strip(str_upper(sql))
        first_keyword == extract_first_keyword(sql_upper)
    IN  IF security_mode_arg = READONLY THEN validate_readonly(first_keyword, sql_upper)
        ELSE IF security_mode_arg = LIMITED_WRITE
             THEN validate_limited_write(first_keyword, sql_upper)
             ELSE FALSE

validate_sql(sql, security_mode_arg) ==
    LET sql_upper == str_strip(str_upper(sql))
        first_keyword == extract_first_keyword(sql_upper)
    IN  IF security_mode_arg = READONLY THEN validate_readonly(first_keyword, sql_upper)
        ELSE IF security_mode_arg = LIMITED_WRITE
             THEN validate_limited_write(first_keyword, sql_upper)
             ELSE IF security_mode_arg = FULL_ACCESS THEN TRUE
                  ELSE FALSE

\* The message is kept as its three parts: the mode its text names ("none"
\* when the text names no mode), the wording, and the keyword it ends with.
get_error_message(sql, security_mode_arg) ==
    LET sql_upper == str_strip(str_upper(sql))
        first_keyword == extract_first_keyword(sql_upper)
    IN  IF security_mode_arg = READONLY
        THEN IF first_keyword \in WRITE_OPERATIONS
             THEN [mode |-> READONLY, wording |-> "write_forbidden", keyword |-> first_keyword]
             ELSE IF first_keyword \in DANGEROUS_OPERATIONS
                  THEN [mode |-> READONLY, wording |-> "dangerous_forbidden",
                        keyword |-> first_keyword]
                  ELSE [mode |-> READONLY, wording |-> "unsupported",
                        keyword |-> first_keyword]
        ELSE IF security_mode_arg = LIMITED_WRITE
             THEN IF first_keyword \in DANGEROUS_OPERATIONS
                  THEN [mode |-> LIMITED_WRITE, wording |-> "dangerous_forbidden",
                        keyword |-> first_keyword]
                  ELSE [mode |-> LIMITED_WRITE, wording |-> "unsupported",
                        keyword |-> first_keyword]
             ELSE [mode |-> "none", wording |-> "forbidden_by_policy", keyword |-> <<>>]

\* ------------------------------------------------------------------------
\* State
\* ------------------------------------------------------------------------

VARIABLES
    security_mode,    \* config.security_mode, fixed once loaded
    allowed_schemas,  \* config.allowed_schemas, fixed once loaded
    max_result_rows,  \* config.max_result_rows, fixed once loaded
    pc,               \* "idle", or "returned" once the call in `call` has finished
    call,             \* the operation called and its arguments
    outcome,          \* what the call returned or raised
    events,           \* what the call asked of the driver, in order
    connections       \* connections open at the driver

vars ==
    <<security_mode, allowed_schemas, max_result_rows, pc, call, outcome, events,
      connections>>

config_vars == <<security_mode, allowed_schemas, max_result_rows>>

NoText == <<>>

\* a driver that does nothing: no fault, no rows
NoDriver == [fault |-> "none", fetched |-> 0, rowcount |-> 0]

\* drv is what the driver does on the call's own connection, probe what it does
\* on the connection of the schema probe
NoCall ==
    [op |-> "none", sql |-> NoText, mode |-> "none", schema |-> NoText,
     table |-> NoText, drv |-> NoDriver, probe |-> NoDriver]

NoMessage == [mode |-> "none", wording |-> "none", keyword |-> NoText]

\* kind is "none", "bool", "rows", "summary" or "raise"
NoOutcome ==
    [kind |-> "none", flag |-> FALSE, rows |-> <<>>, affected_rows |-> 0,
     error |-> "none", message |-> NoMessage]

ReturnsBool(b) == [NoOutcome EXCEPT !.kind = "bool", !.flag = b]

ReturnsRows(rows) == [NoOutcome EXCEPT !.kind = "rows", !.rows = rows]

ReturnsSummary(n) == [NoOutcome EXCEPT !.kind = "summary", !.affected_rows = n]

Raises(error, message) == [NoOutcome EXCEPT !.kind = "raise", !.error = error, !.message = message]

\* one request to the driver; ok is FALSE when the driver raised on it
Event(type, sql, params, ok) == [type |-> type, sql |-> sql, params |-> params, ok |-> ok]

Did(type) == Event(type, NoText, <<>>, TRUE)

Failed(type) == Event(type, NoText, <<>>, FALSE)

\* ------------------------------------------------------------------------
\* OracleConfig (src/config.py)
\* ------------------------------------------------------------------------

STAR == <<"*">>

AUTO == <<"a", "u", "t", "o">>

InList(name, list) == \E i \in 1..Len(list) : list[i] = name

is_readonly_mode_or_limited == security_mode \in {READONLY, LIMITED_WRITE}

is_readonly_mode == security_mode = READONLY

is_all_schemas_allowed == InList(STAR, allowed_schemas)

is_auto_discover_schemas == InList(AUTO, allowed_schemas)

\* ------------------------------------------------------------------------
\* The driver, as far as one call sees it
\* ------------------------------------------------------------------------

\* the default of OracleConfig.max_result_rows
DefaultMaxResultRows == 1000

MaxFetched == 5

MaxCap == 2

\* The first request the driver fails on ("none": it fails on nothing), the
\* number of rows a fetch yields and the row count a statement reports.
DriverBehaviours ==
    {[fault |-> f, fetched |-> 0, rowcount |-> 0] :
        f \in {"connect", "alter_session", "execute", "fetch", "commit"}}
    \cup {[fault |-> "none", fetched |-> n, rowcount |-> n] : n \in 0..MaxFetched}

\* the rows cursor.fetchall() yields, in the driver's order
FetchedRows(n) == [i \in 1..n |-> i]

\* ------------------------------------------------------------------------
\* OracleDatabase (src/database.py)
\* ------------------------------------------------------------------------

ALTER_SESSION == <<"A", "L", "T", "E", "R", " ", "S", "E", "S", "S", "I", "O", "N", " ", "S", "E", "T", " ", "Q", "U", "E", "R", "Y", "_", "R", "E", "W", "R", "I", "T", "E", "_", "E", "N", "A", "B", "L", "E", "D", " ", "=", " ", "F", "A", "L", "S", "E">>

DriverError == "cx_Oracle.Error"

\* the with-block of get_connection around `body`, the run of the block's body
get_connection_no_finally(drv, body) ==
    IF drv.fault = "connect"
    THEN [events |-> <<Failed("connect")>>, outcome |-> Raises(DriverError, NoMessage)]
    ELSE IF is_readonly_mode
         THEN IF drv.fault = "alter_session"
              THEN [events |-> <<Did("connect"), Did("cursor"),
                                 Event("execute", ALTER_SESSION, <<>>, FALSE)>>,
                    outcome |-> Raises(DriverError, NoMessage)]
              ELSE [events |-> <<Did("connect"), Did("cursor"),
                                 Event("execute", ALTER_SESSION, <<>>, TRUE),
                                 Did("cursor_close")>>
                               \o body.events
                               \o (IF body.outcome.kind = "raise" THEN <<>>
                                   ELSE <<Did("close")>>),
                    outcome |-> body.outcome]
         ELSE [events |-> <<Did("connect")>> \o body.events
                          \o (IF body.outcome.kind = "raise" THEN <<>>
                              ELSE <<Did("close")>>),
               outcome |-> body.outcome]

get_connection_retry(drv, body) ==
    IF drv.fault = "connect"
    THEN [events |-> <<Failed("connect"), Failed("connect")>>,
          outcome |-> Raises(DriverError, NoMessage)]
    ELSE IF is_readonly_mode
         THEN IF drv.fault = "alter_session"
              THEN [events |-> <<Did("connect"), Did("cursor"),
                                 Event("execute", ALTER_SESSION, <<>>, FALSE),
                                 Did("close")>>,
                    outcome |-> Raises(DriverError, NoMessage)]
              ELSE [events |-> <<Did("connect"), Did("cursor"),
                                 Event("execute", ALTER_SESSION, <<>>, TRUE),
                                 Did("cursor_close")>>
                               \o body.events \o <<Did("close")>>,
                    outcome |-> body.outcome]
         ELSE [events |-> <<Did("connect")>> \o body.events \o <<Did("close")>>,
               outcome |-> body.outcome]

get_connection(drv, body) ==
    IF drv.fault = "connect"
    THEN [events |-> <<Failed("connect")>>, outcome |-> Raises(DriverError, NoMessage)]
    ELSE IF is_readonly_mode
         THEN IF drv.fault = "alter_session"
              THEN [events |-> <<Did("connect"), Did("cursor"),
                                 Event("execute", ALTER_SESSION, <<>>, FALSE),
                                 Did("close")>>,
                    outcome |-> Raises(DriverError, NoMessage)]
              ELSE [events |-> <<Did("connect"), Did("cursor"),
                                 Event("execute", ALTER_SESSION, <<>>, TRUE),
                                 Did("cursor_close")>>
                               \o body.events \o <<Did("close")>>,
                    outcome |-> body.outcome]
         ELSE [events |-> <<Did("connect")>> \o body.events \o <<Did("close")>>,
               outcome |-> body.outcome]

\* the prefixes of the startswith test of execute_query
FetchPrefixes_no_with == {KW_SELECT, KW_DESC, KW_DESCRIBE, KW_EXPLAIN}

FetchPrefixes == {KW_SELECT, KW_WITH, KW_DESC, KW_DESCRIBE, KW_EXPLAIN}

\* results[:max_result_rows] when there are more rows than that
Truncate_last(results) ==
    IF Len(results) > max_result_rows
    THEN SubSeq(results, Len(results) - max_result_rows + 1, Len(results))
    ELSE results

Truncate(results) ==
    IF Len(results) > max_result_rows THEN SubSeq(results, 1, max_result_rows)
    ELSE results

\* the body of the with-block of execute_query
run_statement_by_keyword(sql, params, drv) ==
    IF drv.fault = "execute"
    THEN [events |-> <<Did("cursor"), Event("execute", sql, params, FALSE),
                       Did("cursor_close")>>,
          outcome |-> Raises(DriverError, NoMessage)]
    ELSE IF extract_first_keyword(str_strip(str_upper(sql))) \in FetchPrefixes
         THEN IF drv.fault = "fetch"
              THEN [events |-> <<Did("cursor"), Event("execute", sql, params, TRUE),
                                 Failed("fetchall"), Did("cursor_close")>>,
                    outcome |-> Raises(DriverError, NoMessage)]
              ELSE [events |-> <<Did("cursor"), Event("execute", sql, params, TRUE),
                                 Did("fetchall"), Did("cursor_close")>>,
                    outcome |-> ReturnsRows(Truncate(FetchedRows(drv.fetched)))]
         ELSE IF drv.fault = "commit"
              THEN [events |-> <<Did("cursor"), Event("execute", sql, params, TRUE),
                                 Failed("commit"), Did("cursor_close")>>,
                    outcome |-> Raises(DriverError, NoMessage)]
              ELSE [events |-> <<Did("cursor"), Event("execute", sql, params, TRUE),
                                 Did("commit"), Did("cursor_close")>>,
                    outcome |-> ReturnsSummary(drv.rowcount)]

run_statement_commit_always(sql, params, drv) ==
    IF drv.fault = "execute"
    THEN [events |-> <<Did("cursor"), Event("execute", sql, params, FALSE),
                       Did("cursor_close")>>,
          outcome |-> Raises(DriverError, NoMessage)]
    ELSE IF \E prefix \in FetchPrefixes : StartsWith(str_strip(str_upper(sql)), prefix)
         THEN IF drv.fault = "fetch"
              THEN [events |-> <<Did("cursor"), Event("execute", sql, params, TRUE),
                                 Failed("fetchall"), Did("cursor_close")>>,
                    outcome |-> Raises(DriverError, NoMessage)]
              ELSE [events |-> <<Did("cursor"), Event("execute", sql, params, TRUE),
                                 Did("fetchall"), Did("commit"), Did("cursor_close")>>,
                    outcome |-> ReturnsRows(Truncate(FetchedRows(drv.fetched)))]
         ELSE IF drv.fault = "commit"
              THEN [events |-> <<Did("cursor"), Event("execute", sql, params, TRUE),
                                 Failed("commit"), Did("cursor_close")>>,
                    outcome |-> Raises(DriverError, NoMessage)]
              ELSE [events |-> <<Did("cursor"), Event("execute", sql, params, TRUE),
                                 Did("commit"), Did("cursor_close")>>,
                    outcome |-> ReturnsSummary(drv.rowcount)]

run_statement_commit_on_error(sql, params, drv) ==
    IF drv.fault = "execute"
    THEN [events |-> <<Did("cursor"), Event("execute", sql, params, FALSE),
                       Did("commit"), Did("cursor_close")>>,
          outcome |-> Raises(DriverError, NoMessage)]
    ELSE IF \E prefix \in FetchPrefixes : StartsWith(str_strip(str_upper(sql)), prefix)
         THEN IF drv.fault = "fetch"
              THEN [events |-> <<Did("cursor"), Event("execute", sql, params, TRUE),
                                 Failed("fetchall"), Did("cursor_close")>>,
                    outcome |-> Raises(DriverError, NoMessage)]
              ELSE [events |-> <<Did("cursor"), Event("execute", sql, params, TRUE),
                                 Did("fetchall"), Did("cursor_close")>>,
                    outcome |-> ReturnsRows(Truncate(FetchedRows(drv.fetched)))]
         ELSE IF drv.fault = "commit"
              THEN [events |-> <<Did("cursor"), Event("execute", sql, params, TRUE),
                                 Failed("commit"), Did("cursor_close")>>,
                    outcome |-> Raises(DriverError, NoMessage)]
              ELSE [events |-> <<Did("cursor"), Event("execute", sql, params, TRUE),
                                 Did("commit"), Did("cursor_close")>>,
                    outcome |-> ReturnsSummary(drv.rowcount)]

run_statement(sql, params, drv) ==
    IF drv.fault = "execute"
    THEN [events |-> <<Did("cursor"), Event("execute", sql, params, FALSE),
                       Did("cursor_close")>>,
          outcome |-> Raises(DriverError, NoMessage)]
    ELSE IF \E prefix \in FetchPrefixes : StartsWith(str_strip(str_upper(sql)), prefix)
         THEN IF drv.fault = "fetch"
              THEN [events |-> <<Did("cursor"), Event("execute", sql, params, TRUE),
                                 Failed("fetchall"), Did("cursor_close")>>,
                    outcome |-> Raises(DriverError, NoMessage)]
              ELSE [events |-> <<Did("cursor"), Event("execute", sql, params, TRUE),
                                 Did("fetchall"), Did("cursor_close")>>,
                    outcome |-> ReturnsRows(Truncate(FetchedRows(drv.fetched)))]
         ELSE IF drv.fault = "commit"
              THEN [events |-> <<Did("cursor"), Event("execute", sql, params, TRUE),
                                 Failed("commit"), Did("cursor_close")>>,
                    outcome |-> Raises(DriverError, NoMessage)]
              ELSE [events |-> <<Did("cursor"), Event("execute", sql, params, TRUE),
                                 Did("commit"), Did("cursor_close")>>,
                    outcome |-> ReturnsSummary(drv.rowcount)]

execute_query_connect_first(sql, params, drv) ==
    get_connection(drv,
        IF ~validate_sql(sql, security_mode)
        THEN [events |-> <<>>,
              outcome |-> Raises("ValueError", get_error_message(sql, security_mode))]
        ELSE run_statement(sql, params, drv))

execute_query_within_list(sql, params, drv) ==
    IF ~validate_sql(sql, security_mode)
    THEN [events |-> <<>>,
          outcome |-> Raises("ValueError", get_error_message(sql, security_mode))]
    ELSE IF /\ ~is_all_schemas_allowed
            /\ ~is_auto_discover_schemas
            /\ ~\E i \in 1..Len(allowed_schemas) :
                   Contains(str_upper(sql), str_upper(allowed_schemas[i]))
         THEN [events |-> <<>>,
               outcome |-> Raises("ValueError",
                                  [NoMessage EXCEPT !.wording = "schema_not_allowed"])]
         ELSE get_connection(drv, run_statement(sql, params, drv))

execute_query(sql, params, drv) ==
    IF ~validate_sql(sql, security_mode)
    THEN [events |-> <<>>,
          outcome |-> Raises("ValueError", get_error_message(sql, security_mode))]
    ELSE get_connection(drv, run_statement(sql, params, drv))

SystemQueryMessage ==
    [mode |-> "none", wording |-> "system_query_must_be_readonly", keyword |-> NoText]

\* execute_safe_query validating against the configured mode only
execute_safe_query_by_tier(sql, params, drv) ==
    IF ~validate_sql(sql, security_mode)
    THEN [events |-> <<>>, outcome |-> Raises("ValueError", SystemQueryMessage)]
    ELSE execute_query(sql, params, drv)

execute_safe_query(sql, params, drv) ==
    IF ~validate_sql(sql, READONLY)
    THEN [events |-> <<>>, outcome |-> Raises("ValueError", SystemQueryMessage)]
    ELSE execute_query(sql, params, drv)

\* len(result) of what execute_query returned
ResultLen(result) == IF result.kind = "rows" THEN Len(result.rows) ELSE 1

test_sql == <<"\n", " ", " ", " ", " ", " ", " ", " ", " ", " ", " ", " ", " ", " ", " ", " ", " ", "S", "E", "L", "E", "C", "T", " ", "D", "I", "S", "T", "I", "N", "C", "T", " ", "O", "W", "N", "E", "R", " ", "\n", " ", " ", " ", " ", " ", " ", " ", " ", " ", " ", " ", " ", " ", " ", " ", " ", "F", "R", "O", "M", " ", "A", "L", "L", "_", "T", "A", "B", "L", "E", "S", " ", "\n", " ", " ", " ", " ", " ", " ", " ", " ", " ", " ", " ", " ", " ", " ", " ", " ", "W", "H", "E", "R", "E", " ", "O", "W", "N", "E", "R", " ", "=", " ", ":", "s", "c", "h", "e", "m", "a", "\n", " ", " ", " ", " ", " ", " ", " ", " ", " ", " ", " ", " ", " ", " ", " ", " ">>

\* is_schema_allowed comparing with the configured names as they are written
is_schema_allowed_case_sensitive(schema, drv) ==
    IF is_all_schemas_allowed THEN [events |-> <<>>, outcome |-> ReturnsBool(TRUE)]
    ELSE IF is_auto_discover_schemas
         THEN LET probe == execute_safe_query(test_sql, <<str_upper(schema)>>, drv)
              IN  [events |-> probe.events,
                   outcome |-> IF probe.outcome.kind = "raise" THEN ReturnsBool(FALSE)
                               ELSE ReturnsBool(ResultLen(probe.outcome) > 0)]
         ELSE [events |-> <<>>,
               outcome |-> ReturnsBool(InList(str_upper(schema), allowed_schemas))]

is_schema_allowed_uncaught(schema, drv) ==
    IF is_all_schemas_allowed THEN [events |-> <<>>, outcome |-> ReturnsBool(TRUE)]
    ELSE IF is_auto_discover_schemas
         THEN LET probe == execute_safe_query(test_sql, <<str_upper(schema)>>, drv)
              IN  [events |-> probe.events,
                   outcome |-> IF probe.outcome.kind = "raise" THEN probe.outcome
                               ELSE ReturnsBool(ResultLen(probe.outcome) > 0)]
         ELSE [events |-> <<>>,
               outcome |-> ReturnsBool(\E i \in 1..Len(allowed_schemas) :
                                          str_upper(allowed_schemas[i]) = str_upper(schema))]

is_schema_allowed_auto_first(schema, drv) ==
    IF is_auto_discover_schemas
    THEN LET probe == execute_safe_query(test_sql, <<str_upper(schema)>>, drv)
         IN  [events |-> probe.events,
              outcome |-> IF probe.outcome.kind = "raise" THEN ReturnsBool(FALSE)
                          ELSE ReturnsBool(ResultLen(probe.outcome) > 0)]
    ELSE IF is_all_schemas_allowed THEN [events |-> <<>>, outcome |-> ReturnsBool(TRUE)]
         ELSE [events |-> <<>>,
               outcome |-> ReturnsBool(\E i \in 1..Len(allowed_schemas) :
                                          str_upper(allowed_schemas[i]) = str_upper(schema))]

is_schema_allowed(schema, drv) ==
    IF is_all_schemas_allowed THEN [events |-> <<>>, outcome |-> ReturnsBool(TRUE)]
    ELSE IF is_auto_discover_schemas
         THEN LET probe == execute_safe_query(test_sql, <<str_upper(schema)>>, drv)
              IN  [events |-> probe.events,
                   outcome |-> IF probe.outcome.kind = "raise" THEN ReturnsBool(FALSE)
                               ELSE ReturnsBool(ResultLen(probe.outcome) > 0)]
         ELSE [events |-> <<>>,
               outcome |-> ReturnsBool(\E i \in 1..Len(allowed_schemas) :
                                          str_upper(allowed_schemas[i]) = str_upper(schema))]

\* _get_allowed_schemas_display: form "all" is the text for `*`, "auto" the
\* text for auto discovery, "list" the printed list of configured names
get_allowed_schemas_display ==
    IF is_all_schemas_allowed THEN [form |-> "all", names |-> <<>>]
    ELSE IF is_auto_discover_schemas THEN [form |-> "auto", names |-> <<>>]
         ELSE [form |-> "list", names |-> allowed_schemas]

\* ------------------------------------------------------------------------
\* Schema-scoped catalog operations
\* ------------------------------------------------------------------------

\* config.username, as ORACLE_USERNAME gives it
username == <<"h", "r">>

\* the schema argument left at its default, None
NONE == <<"None">>

\* schema = config.username.upper() when the argument is None
resolve_schema(schema) == IF schema = NONE THEN str_upper(username) ELSE schema

\* ValueError naming the schema and the display form of the allowed set
SchemaDenied(schema) ==
    Raises("ValueError",
           [mode |-> "none", wording |-> "schema_not_allowed", keyword |-> NoText,
            schema |-> schema, display |-> get_allowed_schemas_display])

\* the catalog statement of get_all_tables (lines 243-255), character for character
get_all_tables_sql ==
    <<"\n", " ", " ", " ", " ", " ", " ", " ", " ", "S", "E", "L", "E", "C", "T", " ", "\n",
      " ", " ", " ", " ", " ", " ", " ", " ", " ", " ", " ", " ", "O", "W", "N", "E", "R", " ",
      "A", "S", " ", "s", "c", "h", "e", "m", "a", "n", "a", "m", "e", ",", "\n", " ", " ",
      " ", " ", " ", " ", " ", " ", " ", " ", " ", " ", "T", "A", "B", "L", "E", "_", "N", "A",
      "M", "E", " ", "A", "S", " ", "t", "a", "b", "l", "e", "n", "a", "m", "e", ",", "\n",
      " ", " ", " ", " ", " ", " ", " ", " ", " ", " ", " ", " ", "'", "B", "A", "S", "E", " ",
      "T", "A", "B", "L", "E", "'", " ", "A", "S", " ", "t", "a", "b", "l", "e", "t", "y", "p",
      "e", ",", "\n", " ", " ", " ", " ", " ", " ", " ", " ", " ", " ", " ", " ", "N", "U",
      "M", "_", "R", "O", "W", "S", " ", "A", "S", " ", "r", "o", "w", "_", "c", "o", "u", "n",
      "t", ",", "\n", " ", " ", " ", " ", " ", " ", " ", " ", " ", " ", " ", " ", "C", "O",
      "M", "M", "E", "N", "T", "S", " ", "A", "S", " ", "t", "a", "b", "l", "e", "_", "c", "o",
      "m", "m", "e", "n", "t", "\n", " ", " ", " ", " ", " ", " ", " ", " ", "F", "R", "O",
      "M", " ", "A", "L", "L", "_", "T", "A", "B", "L", "E", "S", " ", "t", "\n", " ", " ",
      " ", " ", " ", " ", " ", " ", "L", "E", "F", "T", " ", "J", "O", "I", "N", " ", "A", "L",
      "L", "_", "T", "A", "B", "_", "C", "O", "M", "M", "E", "N", "T", "S", " ", "c", " ",
      "\n", " ", " ", " ", " ", " ", " ", " ", " ", " ", " ", " ", " ", "O", "N", " ", "t",
      ".", "O", "W", "N", "E", "R", " ", "=", " ", "c", ".", "O", "W", "N", "E", "R", " ", "A",
      "N", "D", " ", "t", ".", "T", "A", "B", "L", "E", "_", "N", "A", "M", "E", " ", "=", " ",
      "c", ".", "T", "A", "B", "L", "E", "_", "N", "A", "M", "E", "\n", " ", " ", " ", " ",
      " ", " ", " ", " ", "W", "H", "E", "R", "E", " ", "t", ".", "O", "W", "N", "E", "R", " ",
      "=", " ", ":", "s", "c", "h", "e", "m", "a", "\n", " ", " ", " ", " ", " ", " ", " ",
      " ", "O", "R", "D", "E", "R", " ", "B", "Y", " ", "t", ".", "T", "A", "B", "L", "E", "_",
      "N", "A", "M", "E", "\n", " ", " ", " ", " ", " ", " ", " ", " ">>

\* the catalog statement of get_table_structure (lines 313-341), character for character
get_table_structure_sql ==
    <<"\n", " ", " ", " ", " ", " ", " ", " ", " ", "S", "E", "L", "E", "C", "T", " ", "\n",
      " ", " ", " ", " ", " ", " ", " ", " ", " ", " ", " ", " ", "c", ".", "C", "O", "L", "U",
      "M", "N", "_", "N", "A", "M", "E", " ", "a", "s", " ", "c", "o", "l", "u", "m", "n", "_",
      "n", "a", "m", "e", ",", "\n", " ", " ", " ", " ", " ", " ", " ", " ", " ", " ", " ",
      " ", "c", ".", "D", "A", "T", "A", "_", "T", "Y", "P", "E", " ", "a", "s", " ", "d", "a",
      "t", "a", "_", "t", "y", "p", "e", ",", "\n", " ", " ", " ", " ", " ", " ", " ", " ",
      " ", " ", " ", " ", "c", ".", "D", "A", "T", "A", "_", "L", "E", "N", "G", "T", "H", " ",
      "a", "s", " ", "c", "h", "a", "r", "a", "c", "t", "e", "r", "_", "m", "a", "x", "i", "m",
      "u", "m", "_", "l", "e", "n", "g", "t", "h", ",", "\n", " ", " ", " ", " ", " ", " ",
      " ", " ", " ", " ", " ", " ", "c", ".", "D", "A", "T", "A", "_", "P", "R", "E", "C", "I",
      "S", "I", "O", "N", " ", "a", "s", " ", "n", "u", "m", "e", "r", "i", "c", "_", "p", "r",
      "e", "c", "i", "s", "i", "o", "n", ",", "\n", " ", " ", " ", " ", " ", " ", " ", " ",
      " ", " ", " ", " ", "c", ".", "D", "A", "T", "A", "_", "S", "C", "A", "L", "E", " ", "a",
      "s", " ", "n", "u", "m", "e", "r", "i", "c", "_", "s", "c", "a", "l", "e", ",", "\n",
      " ", " ", " ", " ", " ", " ", " ", " ", " ", " ", " ", " ", "C", "A", "S", "E", " ", "W",
      "H", "E", "N", " ", "c", ".", "N", "U", "L", "L", "A", "B", "L", "E", " ", "=", " ", "'",
      "Y", "'", " ", "T", "H", "E", "N", " ", "'", "Y", "E", "S", "'", " ", "E", "L", "S", "E",
      " ", "'", "N", "O", "'", " ", "E", "N", "D", " ", "a", "s", " ", "i", "s", "_", "n", "u",
      "l", "l", "a", "b", "l", "e", ",", "\n", " ", " ", " ", " ", " ", " ", " ", " ", " ",
      " ", " ", " ", "c", ".", "D", "A", "T", "A", "_", "D", "E", "F", "A", "U", "L", "T", " ",
      "a", "s", " ", "c", "o", "l", "u", "m", "n", "_", "d", "e", "f", "a", "u", "l", "t", ",",
      "\n", " ", " ", " ", " ", " ", " ", " ", " ", " ", " ", " ", " ", "c", ".", "C", "O",
      "L", "U", "M", "N", "_", "I", "D", " ", "a", "s", " ", "o", "r", "d", "i", "n", "a", "l",
      "_", "p", "o", "s", "i", "t", "i", "o", "n", ",", "\n", " ", " ", " ", " ", " ", " ",
      " ", " ", " ", " ", " ", " ", "C", "A", "S", "E", " ", "\n", " ", " ", " ", " ", " ",
      " ", " ", " ", " ", " ", " ", " ", " ", " ", " ", " ", "W", "H", "E", "N", " ", "c", "c",
      ".", "C", "O", "N", "S", "T", "R", "A", "I", "N", "T", "_", "T", "Y", "P", "E", " ", "=",
      " ", "'", "P", "'", " ", "T", "H", "E", "N", " ", "'", "Y", "E", "S", "'", "\n", " ",
      " ", " ", " ", " ", " ", " ", " ", " ", " ", " ", " ", " ", " ", " ", " ", "E", "L", "S",
      "E", " ", "'", "N", "O", "'", "\n", " ", " ", " ", " ", " ", " ", " ", " ", " ", " ",
      " ", " ", "E", "N", "D", " ", "a", "s", " ", "i", "s", "_", "p", "r", "i", "m", "a", "r",
      "y", "_", "k", "e", "y", ",", "\n", " ", " ", " ", " ", " ", " ", " ", " ", " ", " ",
      " ", " ", "c", "o", "m", ".", "C", "O", "M", "M", "E", "N", "T", "S", " ", "a", "s", " ",
      "c", "o", "l", "u", "m", "n", "_", "c", "o", "m", "m", "e", "n", "t", "\n", " ", " ",
      " ", " ", " ", " ", " ", " ", "F", "R", "O", "M", " ", "A", "L", "L", "_", "T", "A", "B",
      "_", "C", "O", "L", "U", "M", "N", "S", " ", "c", "\n", " ", " ", " ", " ", " ", " ",
      " ", " ", "L", "E", "F", "T", " ", "J", "O", "I", "N", " ", "A", "L", "L", "_", "C", "O",
      "L", "_", "C", "O", "M", "M", "E", "N", "T", "S", " ", "c", "o", "m", " ", "\n", " ",
      " ", " ", " ", " ", " ", " ", " ", " ", " ", " ", " ", "O", "N", " ", "c", ".", "O", "W",
      "N", "E", "R", " ", "=", " ", "c", "o", "m", ".", "O", "W", "N", "E", "R", " ", "A", "N",
      "D", " ", "c", ".", "T", "A", "B", "L", "E", "_", "N", "A", "M", "E", " ", "=", " ", "c",
      "o", "m", ".", "T", "A", "B", "L", "E", "_", "N", "A", "M", "E", " ", "A", "N", "D", " ",
      "c", ".", "C", "O", "L", "U", "M", "N", "_", "N", "A", "M", "E", " ", "=", " ", "c", "o",
      "m", ".", "C", "O", "L", "U", "M", "N", "_", "N", "A", "M", "E", "\n", " ", " ", " ",
      " ", " ", " ", " ", " ", "L", "E", "F", "T", " ", "J", "O", "I", "N", " ", "(", "\n",
      " ", " ", " ", " ", " ", " ", " ", " ", " ", " ", " ", " ", "S", "E", "L", "E", "C", "T",
      " ", "c", "c", ".", "O", "W", "N", "E", "R", ",", " ", "c", "c", ".", "T", "A", "B", "L",
      "E", "_", "N", "A", "M", "E", ",", " ", "c", "c", ".", "C", "O", "L", "U", "M", "N", "_",
      "N", "A", "M", "E", ",", " ", "c", ".", "C", "O", "N", "S", "T", "R", "A", "I", "N", "T",
      "_", "T", "Y", "P", "E", "\n", " ", " ", " ", " ", " ", " ", " ", " ", " ", " ", " ",
      " ", "F", "R", "O", "M", " ", "A", "L", "L", "_", "C", "O", "N", "S", "_", "C", "O", "L",
      "U", "M", "N", "S", " ", "c", "c", "\n", " ", " ", " ", " ", " ", " ", " ", " ", " ",
      " ", " ", " ", "J", "O", "I", "N", " ", "A", "L", "L", "_", "C", "O", "N", "S", "T", "R",
      "A", "I", "N", "T", "S", " ", "c", " ", "O", "N", " ", "c", "c", ".", "C", "O", "N", "S",
      "T", "R", "A", "I", "N", "T", "_", "N", "A", "M", "E", " ", "=", " ", "c", ".", "C", "O",
      "N", "S", "T", "R", "A", "I", "N", "T", "_", "N", "A", "M", "E", " ", "\n", " ", " ",
      " ", " ", " ", " ", " ", " ", " ", " ", " ", " ", " ", " ", " ", " ", "A", "N", "D", " ",
      "c", "c", ".", "O", "W", "N", "E", "R", " ", "=", " ", "c", ".", "O", "W", "N", "E", "R",
      "\n", " ", " ", " ", " ", " ", " ", " ", " ", " ", " ", " ", " ", "W", "H", "E", "R",
      "E", " ", "c", ".", "C", "O", "N", "S", "T", "R", "A", "I", "N", "T", "_", "T", "Y", "P",
      "E", " ", "=", " ", "'", "P", "'", "\n", " ", " ", " ", " ", " ", " ", " ", " ", ")",
      " ", "c", "c", " ", "O", "N", " ", "c", ".", "O", "W", "N", "E", "R", " ", "=", " ", "c",
      "c", ".", "O", "W", "N", "E", "R", " ", "A", "N", "D", " ", "c", ".", "T", "A", "B", "L",
      "E", "_", "N", "A", "M", "E", " ", "=", " ", "c", "c", ".", "T", "A", "B", "L", "E", "_",
      "N", "A", "M", "E", " ", "A", "N", "D", " ", "c", ".", "C", "O", "L", "U", "M", "N", "_",
      "N", "A", "M", "E", " ", "=", " ", "c", "c", ".", "C", "O", "L", "U", "M", "N", "_", "N",
      "A", "M", "E", "\n", " ", " ", " ", " ", " ", " ", " ", " ", "W", "H", "E", "R", "E",
      " ", "c", ".", "T", "A", "B", "L", "E", "_", "N", "A", "M", "E", " ", "=", " ", ":", "t",
      "a", "b", "l", "e", "_", "n", "a", "m", "e", "\n", " ", " ", " ", " ", " ", " ", " ",
      " ", " ", " ", " ", " ", "A", "N", "D", " ", "c", ".", "O", "W", "N", "E", "R", " ", "=",
      " ", ":", "s", "c", "h", "e", "m", "a", "\n", " ", " ", " ", " ", " ", " ", " ", " ",
      "O", "R", "D", "E", "R", " ", "B", "Y", " ", "c", ".", "C", "O", "L", "U", "M", "N", "_",
      "I", "D", "\n", " ", " ", " ", " ", " ", " ", " ", " ">>

\* the catalog statement of get_table_indexes (lines 354-366), character for character
get_table_indexes_sql ==
    <<"\n", " ", " ", " ", " ", " ", " ", " ", " ", " ", " ", " ", " ", "S", "E", "L", "E",
      "C", "T", " ", "\n", " ", " ", " ", " ", " ", " ", " ", " ", " ", " ", " ", " ", " ",
      " ", " ", " ", "i", ".", "I", "N", "D", "E", "X", "_", "N", "A", "M", "E", " ", "a", "s",
      " ", "i", "n", "d", "e", "x", "n", "a", "m", "e", ",", "\n", " ", " ", " ", " ", " ",
      " ", " ", " ", " ", " ", " ", " ", " ", " ", " ", " ", "C", "A", "S", "E", " ", "W", "H",
      "E", "N", " ", "i", ".", "U", "N", "I", "Q", "U", "E", "N", "E", "S", "S", " ", "=", " ",
      "'", "U", "N", "I", "Q", "U", "E", "'", " ", "T", "H", "E", "N", " ", "'", "Y", "E", "S",
      "'", " ", "E", "L", "S", "E", " ", "'", "N", "O", "'", " ", "E", "N", "D", " ", "a", "s",
      " ", "i", "s", "_", "u", "n", "i", "q", "u", "e", ",", "\n", " ", " ", " ", " ", " ",
      " ", " ", " ", " ", " ", " ", " ", " ", " ", " ", " ", "L", "I", "S", "T", "A", "G", "G",
      "(", "i", "c", ".", "C", "O", "L", "U", "M", "N", "_", "N", "A", "M", "E", ",", " ", "'",
      ",", " ", "'", ")", " ", "W", "I", "T", "H", "I", "N", " ", "G", "R", "O", "U", "P", " ",
      "(", "O", "R", "D", "E", "R", " ", "B", "Y", " ", "i", "c", ".", "C", "O", "L", "U", "M",
      "N", "_", "P", "O", "S", "I", "T", "I", "O", "N", ")", " ", "a", "s", " ", "i", "n", "d",
      "e", "x", "_", "c", "o", "l", "u", "m", "n", "s", "\n", " ", " ", " ", " ", " ", " ",
      " ", " ", " ", " ", " ", " ", "F", "R", "O", "M", " ", "A", "L", "L", "_", "I", "N", "D",
      "E", "X", "E", "S", " ", "i", "\n", " ", " ", " ", " ", " ", " ", " ", " ", " ", " ",
      " ", " ", "J", "O", "I", "N", " ", "A", "L", "L", "_", "I", "N", "D", "_", "C", "O", "L",
      "U", "M", "N", "S", " ", "i", "c", " ", "O", "N", " ", "i", ".", "I", "N", "D", "E", "X",
      "_", "N", "A", "M", "E", " ", "=", " ", "i", "c", ".", "I", "N", "D", "E", "X", "_", "N",
      "A", "M", "E", " ", "A", "N", "D", " ", "i", ".", "O", "W", "N", "E", "R", " ", "=", " ",
      "i", "c", ".", "I", "N", "D", "E", "X", "_", "O", "W", "N", "E", "R", "\n", " ", " ",
      " ", " ", " ", " ", " ", " ", " ", " ", " ", " ", "W", "H", "E", "R", "E", " ", "i", ".",
      "T", "A", "B", "L", "E", "_", "N", "A", "M", "E", " ", "=", " ", ":", "t", "a", "b", "l",
      "e", "_", "n", "a", "m", "e", " ", "\n", " ", " ", " ", " ", " ", " ", " ", " ", " ",
      " ", " ", " ", " ", " ", " ", " ", "A", "N", "D", " ", "i", ".", "O", "W", "N", "E", "R",
      " ", "=", " ", ":", "s", "c", "h", "e", "m", "a", "\n", " ", " ", " ", " ", " ", " ",
      " ", " ", " ", " ", " ", " ", " ", " ", " ", " ", "A", "N", "D", " ", "i", ".", "I", "N",
      "D", "E", "X", "_", "T", "Y", "P", "E", " ", "!", "=", " ", "'", "L", "O", "B", "'",
      "\n", " ", " ", " ", " ", " ", " ", " ", " ", " ", " ", " ", " ", "G", "R", "O", "U",
      "P", " ", "B", "Y", " ", "i", ".", "I", "N", "D", "E", "X", "_", "N", "A", "M", "E", ",",
      " ", "i", ".", "U", "N", "I", "Q", "U", "E", "N", "E", "S", "S", "\n", " ", " ", " ",
      " ", " ", " ", " ", " ", " ", " ", " ", " ", "O", "R", "D", "E", "R", " ", "B", "Y", " ",
      "i", ".", "I", "N", "D", "E", "X", "_", "N", "A", "M", "E", "\n", " ", " ", " ", " ",
      " ", " ", " ", " ", " ", " ", " ", " ">>

\* the catalog statement of get_table_constraints (lines 382-408), character for character
get_table_constraints_sql ==
    <<"\n", " ", " ", " ", " ", " ", " ", " ", " ", " ", " ", " ", " ", "S", "E", "L", "E",
      "C", "T", " ", "\n", " ", " ", " ", " ", " ", " ", " ", " ", " ", " ", " ", " ", " ",
      " ", " ", " ", "c", ".", "C", "O", "N", "S", "T", "R", "A", "I", "N", "T", "_", "N", "A",
      "M", "E", " ", "a", "s", " ", "c", "o", "n", "s", "t", "r", "a", "i", "n", "t", "_", "n",
      "a", "m", "e", ",", "\n", " ", " ", " ", " ", " ", " ", " ", " ", " ", " ", " ", " ",
      " ", " ", " ", " ", "C", "A", "S", "E", " ", "c", ".", "C", "O", "N", "S", "T", "R", "A",
      "I", "N", "T", "_", "T", "Y", "P", "E", " ", "\n", " ", " ", " ", " ", " ", " ", " ",
      " ", " ", " ", " ", " ", " ", " ", " ", " ", " ", " ", " ", " ", "W", "H", "E", "N", " ",
      "'", "P", "'", " ", "T", "H", "E", "N", " ", "'", "P", "R", "I", "M", "A", "R", "Y", " ",
      "K", "E", "Y", "'", "\n", " ", " ", " ", " ", " ", " ", " ", " ", " ", " ", " ", " ",
      " ", " ", " ", " ", " ", " ", " ", " ", "W", "H", "E", "N", " ", "'", "R", "'", " ", "T",
      "H", "E", "N", " ", "'", "F", "O", "R", "E", "I", "G", "N", " ", "K", "E", "Y", "'",
      "\n", " ", " ", " ", " ", " ", " ", " ", " ", " ", " ", " ", " ", " ", " ", " ", " ",
      " ", " ", " ", " ", "W", "H", "E", "N", " ", "'", "U", "'", " ", "T", "H", "E", "N", " ",
      "'", "U", "N", "I", "Q", "U", "E", "'", "\n", " ", " ", " ", " ", " ", " ", " ", " ",
      " ", " ", " ", " ", " ", " ", " ", " ", " ", " ", " ", " ", "W", "H", "E", "N", " ", "'",
      "C", "'", " ", "T", "H", "E", "N", " ", "'", "C", "H", "E", "C", "K", "'", "\n", " ",
      " ", " ", " ", " ", " ", " ", " ", " ", " ", " ", " ", " ", " ", " ", " ", " ", " ", " ",
      " ", "E", "L", "S", "E", " ", "c", ".", "C", "O", "N", "S", "T", "R", "A", "I", "N", "T",
      "_", "T", "Y", "P", "E", "\n", " ", " ", " ", " ", " ", " ", " ", " ", " ", " ", " ",
      " ", " ", " ", " ", " ", "E", "N", "D", " ", "a", "s", " ", "c", "o", "n", "s", "t", "r",
      "a", "i", "n", "t", "_", "t", "y", "p", "e", ",", "\n", " ", " ", " ", " ", " ", " ",
      " ", " ", " ", " ", " ", " ", " ", " ", " ", " ", "c", "c", ".", "C", "O", "L", "U", "M",
      "N", "_", "N", "A", "M", "E", " ", "a", "s", " ", "c", "o", "l", "u", "m", "n", "_", "n",
      "a", "m", "e", ",", "\n", " ", " ", " ", " ", " ", " ", " ", " ", " ", " ", " ", " ",
      " ", " ", " ", " ", "C", "A", "S", "E", " ", "\n", " ", " ", " ", " ", " ", " ", " ",
      " ", " ", " ", " ", " ", " ", " ", " ", " ", " ", " ", " ", " ", "W", "H", "E", "N", " ",
      "c", ".", "C", "O", "N", "S", "T", "R", "A", "I", "N", "T", "_", "T", "Y", "P", "E", " ",
      "=", " ", "'", "R", "'", " ", "T", "H", "E", "N", "\n", " ", " ", " ", " ", " ", " ",
      " ", " ", " ", " ", " ", " ", " ", " ", " ", " ", " ", " ", " ", " ", " ", " ", " ", " ",
      "r", "c", ".", "O", "W", "N", "E", "R", " ", "|", "|", " ", "'", ".", "'", " ", "|", "|",
      " ", "r", "c", ".", "T", "A", "B", "L", "E", "_", "N", "A", "M", "E", " ", "|", "|", " ",
      "'", ".", "'", " ", "|", "|", " ", "r", "c", "c", ".", "C", "O", "L", "U", "M", "N", "_",
      "N", "A", "M", "E", "\n", " ", " ", " ", " ", " ", " ", " ", " ", " ", " ", " ", " ",
      " ", " ", " ", " ", " ", " ", " ", " ", "E", "L", "S", "E", " ", "N", "U", "L", "L",
      "\n", " ", " ", " ", " ", " ", " ", " ", " ", " ", " ", " ", " ", " ", " ", " ", " ",
      "E", "N", "D", " ", "a", "s", " ", "f", "o", "r", "e", "i", "g", "n", "_", "k", "e", "y",
      "_", "r", "e", "f", "e", "r", "e", "n", "c", "e", "s", "\n", " ", " ", " ", " ", " ",
      " ", " ", " ", " ", " ", " ", " ", "F", "R", "O", "M", " ", "A", "L", "L", "_", "C", "O",
      "N", "S", "T", "R", "A", "I", "N", "T", "S", " ", "c", "\n", " ", " ", " ", " ", " ",
      " ", " ", " ", " ", " ", " ", " ", "L", "E", "F", "T", " ", "J", "O", "I", "N", " ", "A",
      "L", "L", "_", "C", "O", "N", "S", "_", "C", "O", "L", "U", "M", "N", "S", " ", "c", "c",
      " ", "O", "N", " ", "c", ".", "C", "O", "N", "S", "T", "R", "A", "I", "N", "T", "_", "N",
      "A", "M", "E", " ", "=", " ", "c", "c", ".", "C", "O", "N", "S", "T", "R", "A", "I", "N",
      "T", "_", "N", "A", "M", "E", " ", "\n", " ", " ", " ", " ", " ", " ", " ", " ", " ",
      " ", " ", " ", " ", " ", " ", " ", "A", "N", "D", " ", "c", ".", "O", "W", "N", "E", "R",
      " ", "=", " ", "c", "c", ".", "O", "W", "N", "E", "R", "\n", " ", " ", " ", " ", " ",
      " ", " ", " ", " ", " ", " ", " ", "L", "E", "F", "T", " ", "J", "O", "I", "N", " ", "A",
      "L", "L", "_", "C", "O", "N", "S", "T", "R", "A", "I", "N", "T", "S", " ", "r", "c", " ",
      "O", "N", " ", "c", ".", "R", "_", "C", "O", "N", "S", "T", "R", "A", "I", "N", "T", "_",
      "N", "A", "M", "E", " ", "=", " ", "r", "c", ".", "C", "O", "N", "S", "T", "R", "A", "I",
      "N", "T", "_", "N", "A", "M", "E", "\n", " ", " ", " ", " ", " ", " ", " ", " ", " ",
      " ", " ", " ", "L", "E", "F", "T", " ", "J", "O", "I", "N", " ", "A", "L", "L", "_", "C",
      "O", "N", "S", "_", "C", "O", "L", "U", "M", "N", "S", " ", "r", "c", "c", " ", "O", "N",
      " ", "r", "c", ".", "C", "O", "N", "S", "T", "R", "A", "I", "N", "T", "_", "N", "A", "M",
      "E", " ", "=", " ", "r", "c", "c", ".", "C", "O", "N", "S", "T", "R", "A", "I", "N", "T",
      "_", "N", "A", "M", "E", " ", "\n", " ", " ", " ", " ", " ", " ", " ", " ", " ", " ",
      " ", " ", " ", " ", " ", " ", "A", "N", "D", " ", "r", "c", ".", "O", "W", "N", "E", "R",
      " ", "=", " ", "r", "c", "c", ".", "O", "W", "N", "E", "R", "\n", " ", " ", " ", " ",
      " ", " ", " ", " ", " ", " ", " ", " ", "W", "H", "E", "R", "E", " ", "c", ".", "T", "A",
      "B", "L", "E", "_", "N", "A", "M", "E", " ", "=", " ", ":", "t", "a", "b", "l", "e", "_",
      "n", "a", "m", "e", "\n", " ", " ", " ", " ", " ", " ", " ", " ", " ", " ", " ", " ",
      " ", " ", " ", " ", "A", "N", "D", " ", "c", ".", "O", "W", "N", "E", "R", " ", "=", " ",
      ":", "s", "c", "h", "e", "m", "a", "\n", " ", " ", " ", " ", " ", " ", " ", " ", " ",
      " ", " ", " ", " ", " ", " ", " ", "A", "N", "D", " ", "c", ".", "C", "O", "N", "S", "T",
      "R", "A", "I", "N", "T", "_", "T", "Y", "P", "E", " ", "I", "N", " ", "(", "'", "P", "'",
      ",", " ", "'", "R", "'", ",", " ", "'", "U", "'", ",", " ", "'", "C", "'", ")", "\n",
      " ", " ", " ", " ", " ", " ", " ", " ", " ", " ", " ", " ", "O", "R", "D", "E", "R", " ",
      "B", "Y", " ", "c", ".", "C", "O", "N", "S", "T", "R", "A", "I", "N", "T", "_", "T", "Y",
      "P", "E", ",", " ", "c", ".", "C", "O", "N", "S", "T", "R", "A", "I", "N", "T", "_", "N",
      "A", "M", "E", "\n", " ", " ", " ", " ", " ", " ", " ", " ", " ", " ", " ", " ">>

get_all_tables_unchecked(schema, probe, drv) ==
    LET query == execute_safe_query(get_all_tables_sql, <<resolve_schema(schema)>>, drv)
    IN  [events |-> query.events, outcome |-> query.outcome]

\* probe is the driver's behaviour on the connection of the schema probe, drv
\* its behaviour on the connection of the catalog statement
get_all_tables(schema, probe, drv) ==
    LET resolved == resolve_schema(schema)
        allowed == is_schema_allowed(resolved, probe)
    IN  IF ~allowed.outcome.flag
        THEN [events |-> allowed.events, outcome |-> SchemaDenied(resolved)]
        ELSE LET query == execute_safe_query(get_all_tables_sql, <<resolved>>, drv)
             IN  [events |-> allowed.events \o query.events, outcome |-> query.outcome]

get_table_structure(table_name, schema, probe, drv) ==
    LET resolved == resolve_schema(schema)
        allowed == is_schema_allowed(resolved, probe)
    IN  IF ~allowed.outcome.flag
        THEN [events |-> allowed.events, outcome |-> SchemaDenied(resolved)]
        ELSE LET query == execute_safe_query(get_table_structure_sql,
                                             <<str_upper(table_name), str_upper(resolved)>>,
                                             drv)
             IN  [events |-> allowed.events \o query.events, outcome |-> query.outcome]

get_table_indexes_strict(table_name, schema, probe, drv) ==
    LET resolved == resolve_schema(schema)
        allowed == is_schema_allowed(resolved, probe)
    IN  IF ~allowed.outcome.flag
        THEN [events |-> allowed.events, outcome |-> SchemaDenied(resolved)]
        ELSE LET query == execute_safe_query(get_table_indexes_sql,
                                             <<str_upper(table_name), str_upper(resolved)>>,
                                             drv)
             IN  [events |-> allowed.events \o query.events, outcome |-> query.outcome]

get_table_indexes(table_name, schema, probe, drv) ==
    LET resolved == resolve_schema(schema)
        allowed == is_schema_allowed(resolved, probe)
    IN  IF ~allowed.outcome.flag
        THEN [events |-> allowed.events, outcome |-> SchemaDenied(resolved)]
        ELSE LET query == execute_safe_query(get_table_indexes_sql,
                                             <<str_upper(table_name), str_upper(resolved)>>,
                                             drv)
             IN  [events |-> allowed.events \o query.events,
                  outcome |-> IF query.outcome.kind = "raise" THEN ReturnsRows(<<>>)
                              ELSE query.outcome]

get_table_constraints(table_name, schema, probe, drv) ==
    LET resolved == resolve_schema(schema)
        allowed == is_schema_allowed(resolved, probe)
    IN  IF ~allowed.outcome.flag
        THEN [events |-> allowed.events, outcome |-> SchemaDenied(resolved)]
        ELSE LET query == execute_safe_query(get_table_constraints_sql,
                                             <<str_upper(table_name), str_upper(resolved)>>,
                                             drv)
             IN  [events |-> allowed.events \o query.events,
                  outcome |-> IF query.outcome.kind = "raise" THEN ReturnsRows(<<>>)
                              ELSE query.outcome]

\* the statement of get_available_schemas (lines 292-299), character for character
get_available_schemas_sql ==
    <<"\n", " ", " ", " ", " ", " ", " ", " ", " ", "S", "E", "L", "E", "C", "T", " ", "D",
      "I", "S", "T", "I", "N", "C", "T", " ", "O", "W", "N", "E", "R", " ", "A", "S", " ", "s",
      "c", "h", "e", "m", "a", "n", "a", "m", "e", ",", "\n", " ", " ", " ", " ", " ", " ",
      " ", " ", " ", " ", " ", " ", " ", " ", " ", "C", "O", "U", "N", "T", "(", "T", "A", "B",
      "L", "E", "_", "N", "A", "M", "E", ")", " ", "A", "S", " ", "t", "a", "b", "l", "e", "_",
      "c", "o", "u", "n", "t", "\n", " ", " ", " ", " ", " ", " ", " ", " ", "F", "R", "O",
      "M", " ", "A", "L", "L", "_", "T", "A", "B", "L", "E", "S", " ", "\n", " ", " ", " ",
      " ", " ", " ", " ", " ", "W", "H", "E", "R", "E", " ", "O", "W", "N", "E", "R", " ", "N",
      "O", "T", " ", "I", "N", " ", "(", "'", "S", "Y", "S", "'", ",", " ", "'", "S", "Y", "S",
      "T", "E", "M", "'", ",", " ", "'", "C", "T", "X", "S", "Y", "S", "'", ",", " ", "'", "M",
      "D", "S", "Y", "S", "'", ",", " ", "'", "O", "L", "A", "P", "S", "Y", "S", "'", ",", " ",
      "'", "O", "R", "D", "S", "Y", "S", "'", ",", " ", "'", "O", "U", "T", "L", "N", "'", ",",
      " ", "'", "W", "M", "S", "Y", "S", "'", ",", " ", "'", "X", "D", "B", "'", ")", "\n",
      " ", " ", " ", " ", " ", " ", " ", " ", "G", "R", "O", "U", "P", " ", "B", "Y", " ", "O",
      "W", "N", "E", "R", "\n", " ", " ", " ", " ", " ", " ", " ", " ", "O", "R", "D", "E",
      "R", " ", "B", "Y", " ", "O", "W", "N", "E", "R", "\n", " ", " ", " ", " ", " ", " ",
      " ", " ">>

get_available_schemas(drv) == execute_safe_query(get_available_schemas_sql, <<>>, drv)

\* "SELECT 1 FROM DUAL"
test_connection_sql ==
    <<"S", "E", "L", "E", "C", "T", " ", "1", " ", "F", "R", "O", "M", " ", "D", "U", "A", "L">>

\* true when the statement returned a row whose first value is 1; any failure
\* is caught and answered with false
test_connection(drv) ==
    LET result == execute_safe_query(test_connection_sql, <<>>, drv)
    IN  [events |-> result.events,
         outcome |-> IF result.outcome.kind = "raise" THEN ReturnsBool(FALSE)
                     ELSE ReturnsBool(/\ ResultLen(result.outcome) > 0
                                      /\ result.outcome.rows[1] = 1)]

\* ------------------------------------------------------------------------
\* Calls
\* ------------------------------------------------------------------------

N_HR == <<"H", "R">>

N_hr == <<"h", "r">>

N_FINANCE == <<"F", "I", "N", "A", "N", "C", "E">>

N_Finance == <<"F", "i", "n", "a", "n", "c", "e">>

N_H == <<"H">>

SchemaNames == {N_HR, N_hr, N_FINANCE, N_H, AUTO}

SchemaConfigs ==
    {<<STAR>>, <<AUTO>>, <<N_HR>>, <<N_Finance, N_hr>>, <<STAR, AUTO>>, <<STAR, N_HR>>}

\* " * FROM FINANCE.t": a table of a schema that no configured list names
T_StarFromFinance == <<" ", "*", " ", "F", "R", "O", "M", " ", "F", "I", "N", "A", "N", "C", "E", ".", "t">>

\* the statement texts handed to the execution pipeline
QueryTexts ==
    {l \o t :
        l \in {KW_SELECT, L_select, L_SpSELECT, KW_WITH, KW_DESC, KW_INSERT, KW_MERGE,
               KW_DROP, KW_DELETE, L_Empty, L_Blank},
        t \in {NoText, T_OneFromDual, T_DropTable, T_StarFromSubDrop, T_CreatedAt,
               T_CommentDrop, T_IntoValues, T_IntoUsing, T_IntoUsingDrop, T_FromT,
               T_TableT, T_Star, T_StarFromFinance}}

\* connections opened minus connections closed by a run
Opened(evs) ==
    Cardinality({i \in 1..Len(evs) : evs[i] = Did("connect")})
        - Cardinality({i \in 1..Len(evs) : evs[i] = Did("close")})

Finish(run) ==
    /\ outcome' = run.outcome
    /\ events' = run.events
    /\ connections' = connections + Opened(run.events)
    /\ pc' = "returned"
    /\ UNCHANGED config_vars

Init ==
    /\ security_mode \in SecurityMode
    /\ allowed_schemas \in SchemaConfigs
    /\ max_result_rows \in 1..MaxCap
    /\ pc = "idle"
    /\ call = NoCall
    /\ outcome = NoOutcome
    /\ events = <<>>
    /\ connections = 0

ExecuteQuery ==
    /\ pc = "idle"
    /\ \E sql \in QueryTexts, drv \in DriverBehaviours :
          /\ call' = [NoCall EXCEPT !.op = "execute_query", !.sql = sql, !.drv = drv]
          /\ Finish(execute_query(sql, <<>>, drv))

ExecuteSafeQuery ==
    /\ pc = "idle"
    /\ \E sql \in QueryTexts, drv \in DriverBehaviours :
          /\ call' = [NoCall EXCEPT !.op = "execute_safe_query", !.sql = sql, !.drv = drv]
          /\ Finish(execute_safe_query(sql, <<>>, drv))

IsSchemaAllowed ==
    /\ pc = "idle"
    /\ \E schema \in SchemaNames, drv \in DriverBehaviours :
          /\ call' = [NoCall EXCEPT !.op = "is_schema_allowed", !.schema = schema,
                                 !.probe = drv]
          /\ Finish(is_schema_allowed(schema, drv))

\* the caller has the result; the next call starts from the same configuration
Return ==
    /\ pc = "returned"
    /\ pc' = "idle"
    /\ call' = NoCall
    /\ outcome' = NoOutcome
    /\ events' = <<>>
    /\ UNCHANGED <<config_vars, connections>>

Next == ExecuteQuery \/ ExecuteSafeQuery \/ IsSchemaAllowed \/ Return

Spec == Init /\ [][Next]_vars

\* ------------------------------------------------------------------------
\* SpecCatalog: the schema-scoped catalog operations
\* ------------------------------------------------------------------------

N_emp == <<"e", "m", "p">>

TableNames == {N_emp}

\* the schema arguments of the catalog operations
CatalogSchemas == {NONE, N_hr, N_FINANCE}

MaxCatalogFetched == 1

\* what the driver does on the connection of a catalog statement or a probe
CatalogBehaviours == {d \in DriverBehaviours : d.fetched <= MaxCatalogFetched}

\* a probe has a behaviour of its own only when _is_schema_allowed issues one
ProbeBehaviours ==
    IF is_auto_discover_schemas /\ ~is_all_schemas_allowed THEN CatalogBehaviours
    ELSE {NoDriver}

GetAllTables ==
    /\ pc = "idle"
    /\ \E schema \in CatalogSchemas, probe \in ProbeBehaviours, drv \in CatalogBehaviours :
          /\ call' = [NoCall EXCEPT !.op = "get_all_tables", !.schema = schema,
                                    !.probe = probe, !.drv = drv]
          /\ Finish(get_all_tables(schema, probe, drv))

GetTableStructure ==
    /\ pc = "idle"
    /\ \E table_name \in TableNames, schema \in CatalogSchemas,
          probe \in ProbeBehaviours, drv \in CatalogBehaviours :
          /\ call' = [NoCall EXCEPT !.op = "get_table_structure", !.table = table_name,
                                    !.schema = schema, !.probe = probe, !.drv = drv]
          /\ Finish(get_table_structure(table_name, schema, probe, drv))

GetTableIndexes ==
    /\ pc = "idle"
    /\ \E table_name \in TableNames, schema \in CatalogSchemas,
          probe \in ProbeBehaviours, drv \in CatalogBehaviours :
          /\ call' = [NoCall EXCEPT !.op = "get_table_indexes", !.table = table_name,
                                    !.schema = schema, !.probe = probe, !.drv = drv]
          /\ Finish(get_table_indexes(table_name, schema, probe, drv))

GetTableConstraints ==
    /\ pc = "idle"
    /\ \E table_name \in TableNames, schema \in CatalogSchemas,
          probe \in ProbeBehaviours, drv \in CatalogBehaviours :
          /\ call' = [NoCall EXCEPT !.op = "get_table_constraints", !.table = table_name,
                                    !.schema = schema, !.probe = probe, !.drv = drv]
          /\ Finish(get_table_constraints(table_name, schema, probe, drv))

NextCatalog ==
    GetAllTables \/ GetTableStructure \/ GetTableIndexes \/ GetTableConstraints \/ Return

GetAvailableSchemas ==
    /\ pc = "idle"
    /\ \E drv \in DriverBehaviours :
          /\ call' = [NoCall EXCEPT !.op = "get_available_schemas", !.drv = drv]
          /\ Finish(get_available_schemas(drv))

TestConnection ==
    /\ pc = "idle"
    /\ \E drv \in DriverBehaviours :
          /\ call' = [NoCall EXCEPT !.op = "test_connection", !.drv = drv]
          /\ Finish(test_connection(drv))

\* every tier and schema mode, with the default row cap
InitCatalog ==
    /\ security_mode \in SecurityMode
    /\ allowed_schemas \in {<<STAR>>, <<AUTO>>, <<N_HR>>, <<N_Finance, N_hr>>}
    /\ max_result_rows = DefaultMaxResultRows
    /\ pc = "idle"
    /\ call = NoCall
    /\ outcome = NoOutcome
    /\ events = <<>>
    /\ connections = 0

SpecCatalog == InitCatalog /\ [][NextCatalog]_vars

\* ------------------------------------------------------------------------
\* SpecDatabase: every operation of OracleDatabase
\* ------------------------------------------------------------------------

NextDatabase ==
    \/ ExecuteQuery
    \/ ExecuteSafeQuery
    \/ IsSchemaAllowed
    \/ GetAllTables
    \/ GetTableStructure
    \/ GetTableIndexes
    \/ GetTableConstraints
    \/ GetAvailableSchemas
    \/ TestConnection
    \/ Return

SpecDatabase == InitCatalog /\ [][NextDatabase]_vars

\* ------------------------------------------------------------------------
\* SpecValidator: validate_sql applied to every statement text and mode
\* ------------------------------------------------------------------------

InitValidator ==
    /\ security_mode = READONLY
    /\ allowed_schemas = <<STAR>>
    /\ max_result_rows = DefaultMaxResultRows
    /\ pc = "idle"
    /\ call = NoCall
    /\ outcome = NoOutcome
    /\ events = <<>>
    /\ connections = 0

ValidateSql ==
    /\ pc = "idle"
    /\ \E sql \in Statements, mode \in SecurityMode :
          /\ call' = [NoCall EXCEPT !.op = "validate_sql", !.sql = sql, !.mode = mode]
          /\ outcome' = ReturnsBool(validate_sql(sql, mode))
    /\ pc' = "returned"
    /\ UNCHANGED <<config_vars, events, connections>>

NextValidator == ValidateSql \/ Return

SpecValidator == InitValidator /\ [][NextValidator]_vars

\* ------------------------------------------------------------------------
\* Properties of the validator (checked under SpecValidator)
\* ------------------------------------------------------------------------

\* the first whitespace-delimited token of a text, upper-cased
LeadingToken(sql) == FirstWord(str_upper(sql))

\* kw stands in text as a word of its own, not as a part of a longer word
KeywordToken(text, kw) ==
    \E i \in 1..Len(text) :
        /\ WordBoundary(text, i)
        /\ OccursAt(text, kw, i)
        /\ WordBoundary(text, i + Len(kw))

\* validate_sql has returned its decision for call.sql under `mode`
Validated(mode) == pc = "returned" /\ call.op = "validate_sql" /\ call.mode = mode

MutatingFragments ==
    {[a |-> KW_DROP, b |-> KW_TABLE, gap |-> FALSE],
     [a |-> KW_DELETE, b |-> KW_FROM, gap |-> FALSE],
     [a |-> KW_INSERT, b |-> KW_INTO, gap |-> FALSE],
     [a |-> KW_UPDATE, b |-> KW_SET, gap |-> TRUE],
     [a |-> KW_CREATE, b |-> KW_TABLE, gap |-> FALSE],
     [a |-> KW_ALTER, b |-> KW_TABLE, gap |-> FALSE],
     [a |-> KW_MERGE, b |-> KW_INTO, gap |-> FALSE]}

\* C2: under read_only, a statement led by SELECT whose text holds a DROP
\* TABLE, DELETE FROM, INSERT INTO, UPDATE <name> SET, CREATE TABLE, ALTER
\* TABLE or MERGE INTO fragment (on word boundaries, in any letter case, at
\* any place of the text, also after a `;`) is denied.
C2_EmbeddedFragmentDenied ==
    ( /\ Validated(READONLY)
      /\ LeadingToken(call.sql) = KW_SELECT
      /\ \E fragment \in MutatingFragments : re_search(fragment, str_upper(call.sql)) )
    => ~outcome.flag

C2_Witness ==
    /\ Validated(READONLY)
    /\ call.sql = KW_SELECT \o T_StarFromSubDrop
    /\ ~outcome.flag

\* C3: under limited_write, validate_sql permits a statement exactly when its
\* leading keyword is in the readonly or the write set and no dangerous
\* keyword stands anywhere in the text as a keyword token.
C3_LimitedWriteExactly ==
    Validated(LIMITED_WRITE) =>
        ( outcome.flag <=>
            /\ LeadingToken(call.sql) \in READONLY_OPERATIONS \cup WRITE_OPERATIONS
            /\ ~\E kw \in DANGEROUS_OPERATIONS : KeywordToken(str_upper(call.sql), kw) )

\* C4: under read_only, a statement led by WITH, DESC, DESCRIBE or EXPLAIN is
\* rejected if a write or dangerous keyword stands in its upper-cased text as
\* a token, and permitted if none does (a keyword inside a longer word, as in
\* UPDATED_AT or CREATED, is not a token).
C4_OtherReadonlyLeads ==
    ( /\ Validated(READONLY)
      /\ LeadingToken(call.sql) \in {KW_WITH, KW_DESC, KW_DESCRIBE, KW_EXPLAIN} )
    => ( outcome.flag <=>
           ~\E kw \in WRITE_OPERATIONS \cup DANGEROUS_OPERATIONS :
               KeywordToken(str_upper(call.sql), kw) )

\* ------------------------------------------------------------------------
\* Properties of the execution pipeline and the schema resolver (checked under Spec)
\* ------------------------------------------------------------------------

\* the call of `op` has finished
Returned(op) == pc = "returned" /\ call.op = op

\* the call failed with the policy violation raised before any connection
PolicyRejected == outcome.kind = "raise" /\ outcome.error = "ValueError"

\* some request of the call failed at the driver
DriverFailed == \E i \in 1..Len(events) : ~events[i].ok

\* C5: under full_access the policy permits every string, the empty string,
\* whitespace-only strings and strings led by a dangerous keyword included:
\* execute_query never raises a policy rejection, every call goes on to the
\* driver, and a failure comes only from the driver.
C5_FullAccessNeverRejects ==
    (security_mode = FULL_ACCESS /\ Returned("execute_query")) =>
        /\ ~PolicyRejected
        /\ events # <<>>
        /\ events[1].type = "connect"
        /\ outcome.kind = "raise" => (outcome.error = DriverError /\ DriverFailed)

C5_Witness ==
    /\ security_mode = FULL_ACCESS
    /\ Returned("execute_query")
    /\ call.sql = L_Blank
    /\ outcome.kind = "summary"

\* C6: under every configured tier, execute_safe_query rejects every statement
\* that validate_sql does not permit under read_only, and for such a statement
\* no connection is opened, nothing is submitted to the driver and no commit
\* is issued.
C6_ForcedReadonlyRejects ==
    (Returned("execute_safe_query") /\ ~validate_sql(call.sql, READONLY)) =>
        /\ PolicyRejected
        /\ events = <<>>
        /\ connections = 0

C6_Witness ==
    /\ security_mode = FULL_ACCESS
    /\ Returned("execute_safe_query")
    /\ call.sql = KW_DROP \o T_TableT
    /\ PolicyRejected
    /\ events = <<>>

\* C7: whether execute_safe_query accepts or rejects a statement is the same
\* under read_only, limited_write and full_access, and equals the read_only
\* decision of validate_sql.
C7_ForcedReadonlyIgnoresTier ==
    Returned("execute_safe_query") =>
        (PolicyRejected <=> ~validate_sql(call.sql, READONLY))

\* the keywords on which the policy of `mode` rejects sql
OffendingKeywords(sql, mode) ==
    LET text == str_upper(sql)
        lead == LeadingToken(sql)
    IN  IF mode = READONLY
        THEN IF lead \notin READONLY_OPERATIONS THEN {lead}
             ELSE IF lead = KW_SELECT
                  THEN {p.a : p \in {q \in dangerous_patterns : re_search(q, text)}}
                  ELSE {kw \in WRITE_OPERATIONS \cup DANGEROUS_OPERATIONS : Contains(text, kw)}
        ELSE IF lead \notin READONLY_OPERATIONS \cup WRITE_OPERATIONS THEN {lead}
             ELSE {kw \in DANGEROUS_OPERATIONS : Contains(text, kw)}

\* the wording that matches the category of a keyword
WordingFor(kw) ==
    IF kw \in WRITE_OPERATIONS THEN "write_forbidden"
    ELSE IF kw \in DANGEROUS_OPERATIONS THEN "dangerous_forbidden"
         ELSE "unsupported"

\* the policy that rejected the statement of the finished call
RejectingMode ==
    IF call.op = "execute_safe_query" /\ ~validate_sql(call.sql, READONLY) THEN READONLY
    ELSE security_mode

\* C8: every policy denial raised by execute_query or execute_safe_query under
\* read_only or limited_write carries the active tier and the keyword that
\* caused the rejection, with the wording of that keyword's category.
C8_DenialNamesCause ==
    ( /\ pc = "returned"
      /\ call.op \in {"execute_query", "execute_safe_query"}
      /\ security_mode \in {READONLY, LIMITED_WRITE}
      /\ PolicyRejected )
    => /\ outcome.message.mode = security_mode
       /\ outcome.message.keyword \in OffendingKeywords(call.sql, RejectingMode)
       /\ outcome.message.wording = WordingFor(outcome.message.keyword)

\* the configured schema set holds neither `*` nor `auto`
ExplicitAllowList == ~InList(STAR, allowed_schemas) /\ ~InList(AUTO, allowed_schemas)

\* two names are equal as whole strings when letter case is ignored
EqualIgnoringCase(a, b) ==
    /\ Len(a) = Len(b)
    /\ \A i \in 1..Len(a) : UpperChar(a[i]) = UpperChar(b[i])

\* C10: with an explicit allow-list, _is_schema_allowed(name) is true exactly
\* when name equals one of the configured names, compared case-insensitively
\* as whole strings, and no database query is issued; with {HR}, hr is
\* allowed and FINANCE is not.
C10_AllowListExact ==
    (Returned("is_schema_allowed") /\ ExplicitAllowList) =>
        /\ outcome.kind = "bool"
        /\ outcome.flag <=>
              \E i \in 1..Len(allowed_schemas) :
                  EqualIgnoringCase(allowed_schemas[i], call.schema)
        /\ events = <<>>
        /\ (allowed_schemas = <<N_HR>> /\ call.schema = N_hr) => outcome.flag
        /\ (allowed_schemas = <<N_HR>> /\ call.schema = N_FINANCE) => ~outcome.flag

C10_Witness ==
    /\ Returned("is_schema_allowed")
    /\ allowed_schemas = <<N_HR>>
    /\ call.schema = N_hr
    /\ outcome.flag
    /\ events = <<>>

\* the configured schema set holds `auto` and not `*`
AutoDiscover == InList(AUTO, allowed_schemas) /\ ~InList(STAR, allowed_schemas)

\* the statements the finished call submitted, the session directive aside
Submitted == SelectSeq(events, LAMBDA e : e.type = "execute" /\ e.sql # ALTER_SESSION)

\* C11: in auto-discover mode _is_schema_allowed(name) returns a boolean and
\* never raises; it submits at most one statement, the probe, bound to the
\* upper-cased name; it returns true exactly when the probe ran without a
\* failure and its outcome holds at least one row, and false whenever the
\* probe failed.
C11_AutoDiscoverProbe ==
    (Returned("is_schema_allowed") /\ AutoDiscover) =>
        /\ outcome.kind = "bool"
        /\ Len(Submitted) <= 1
        /\ \A i \in 1..Len(Submitted) :
               /\ Submitted[i].sql = test_sql
               /\ Submitted[i].params = <<str_upper(call.schema)>>
        /\ outcome.flag <=>
              /\ Len(Submitted) = 1
              /\ ~DriverFailed
              /\ call.probe.fetched >= 1
              /\ max_result_rows >= 1
        /\ DriverFailed => ~outcome.flag

C11_Witness ==
    /\ Returned("is_schema_allowed")
    /\ AutoDiscover
    /\ call.schema = N_hr
    /\ Len(Submitted) = 1
    /\ Submitted[1].params = <<N_HR>>
    /\ call.probe.fetched = 1
    /\ outcome.flag

\* C12: `*` wins over `auto` and over configured names: whenever the set
\* holds `*`, _is_schema_allowed permits the name and asks nothing of the
\* driver; and the form _get_allowed_schemas_display reports is the mode
\* _is_schema_allowed applied: "all" exactly when the set holds `*`, "auto"
\* when a probe was attempted, "list" when the verdict is membership in the
\* configured names and nothing was asked of the driver.
C12_OneSchemaMode ==
    Returned("is_schema_allowed") =>
        /\ InList(STAR, allowed_schemas) =>
               /\ outcome = ReturnsBool(TRUE)
               /\ events = <<>>
        /\ get_allowed_schemas_display.form = "all" <=> InList(STAR, allowed_schemas)
        /\ get_allowed_schemas_display.form = "auto" =>
               /\ events # <<>>
               /\ events[1].type = "connect"
        /\ get_allowed_schemas_display.form = "list" =>
               /\ events = <<>>
               /\ get_allowed_schemas_display.names = allowed_schemas
               /\ outcome.flag <=>
                     \E i \in 1..Len(allowed_schemas) :
                         EqualIgnoringCase(allowed_schemas[i], call.schema)

C12_Witness ==
    /\ Returned("is_schema_allowed")
    /\ allowed_schemas = <<STAR, AUTO>>
    /\ call.schema = N_FINANCE
    /\ outcome.flag
    /\ events = <<>>
    /\ get_allowed_schemas_display.form = "all"

\* a call of execute_query or execute_safe_query has finished
PipelineReturned == pc = "returned" /\ call.op \in {"execute_query", "execute_safe_query"}

\* the positions of the events of one type in the finished call
Positions(type) == {i \in 1..Len(events) : events[i].type = type}

Smaller(a, b) == IF a < b THEN a ELSE b

\* C14: a fetch that succeeds is never an error on account of the row count:
\* the call returns the first min(n, max_result_rows) of the n rows the driver
\* fetched, in the driver's order; with a cap of 2 and 5 rows fetched the
\* outcome holds exactly the first 2 rows.
C14_RowCap ==
    PipelineReturned =>
        /\ (\E i \in Positions("fetchall") : events[i].ok) <=> outcome.kind = "rows"
        /\ outcome.kind = "rows" =>
              /\ Len(outcome.rows) = Smaller(call.drv.fetched, max_result_rows)
              /\ \A i \in 1..Len(outcome.rows) : outcome.rows[i] = i
              /\ (max_result_rows = 2 /\ call.drv.fetched = 5) => outcome.rows = <<1, 2>>

C14_Witness ==
    /\ PipelineReturned
    /\ max_result_rows = 2
    /\ call.drv.fetched = 5
    /\ outcome.kind = "rows"
    /\ outcome.rows = <<1, 2>>

\* C15: no connection is open once a call has returned or raised; a call of
\* execute_query or execute_safe_query attempts at most one connection, makes
\* every request between opening it and closing it, and closes it exactly
\* once, as its last request, whether the call succeeded or the session
\* directive, the statement, the fetch or the commit failed.
C15_ConnectionClosed ==
    /\ connections = 0
    /\ PipelineReturned =>
          /\ Cardinality(Positions("connect")) <= 1
          /\ \A i \in Positions("connect") : i = 1
          /\ events # <<>> => events[1].type = "connect"
          /\ (events # <<>> /\ events[1].ok) =>
                /\ Positions("close") = {Len(events)}
                /\ events[Len(events)].ok
          /\ (events # <<>> /\ ~events[1].ok) => Len(events) = 1

C15_Witness ==
    /\ Returned("execute_query")
    /\ call.drv.fault = "commit"
    /\ \E i \in Positions("commit") : ~events[i].ok
    /\ outcome.kind = "raise"
    /\ events[1] = Did("connect")
    /\ events[Len(events)] = Did("close")
    /\ connections = 0

\* the policy permits the statement of the finished call
Permitted ==
    /\ validate_sql(call.sql, security_mode)
    /\ call.op = "execute_safe_query" => validate_sql(call.sql, READONLY)

\* C16: a call whose statement the policy rejects fails with the policy
\* violation and asks nothing of the driver: no connection is attempted and
\* no statement submitted; any request to the driver is made for a permitted
\* statement only.
C16_ValidationFirst ==
    PipelineReturned =>
        /\ ~Permitted => (PolicyRejected /\ events = <<>>)
        /\ Permitted => (~PolicyRejected /\ events # <<>> /\ events[1].type = "connect")

C16_Witness ==
    /\ Returned("execute_query")
    /\ security_mode = READONLY
    /\ call.sql = KW_DROP \o T_TableT
    /\ call.drv.fault = "connect"
    /\ PolicyRejected
    /\ events = <<>>

\* the statement of the finished call was executed without a driver error
Executed ==
    \E i \in Positions("execute") : events[i].sql = call.sql /\ events[i].ok

\* the finished call fetched rows and did not commit
FetchBranch == Positions("fetchall") # {} /\ Positions("commit") = {}

\* the finished call committed and did not fetch; unless the commit failed it
\* returned the one summary row with the driver's affected-row count
CommitBranch ==
    /\ Positions("commit") # {}
    /\ Positions("fetchall") = {}
    /\ (\A i \in Positions("commit") : events[i].ok) =>
          outcome = ReturnsSummary(call.drv.rowcount)

\* C17 as stated: after a permitted statement has been executed, the call
\* takes the fetch branch, with no commit, exactly when the statement's
\* leading token, upper-cased, is SELECT, WITH, DESC, DESCRIBE or EXPLAIN; for
\* every other statement it commits and returns the summary row.
C17_FetchByLeadingToken ==
    (PipelineReturned /\ Executed) =>
        IF LeadingToken(call.sql) \in {KW_SELECT, KW_WITH, KW_DESC, KW_DESCRIBE, KW_EXPLAIN}
        THEN FetchBranch
        ELSE CommitBranch

\* the upper-cased, stripped text begins with one of the five read keywords
BeginsWithReadKeyword(sql) ==
    \E kw \in {KW_SELECT, KW_WITH, KW_DESC, KW_DESCRIBE, KW_EXPLAIN} :
        StartsWith(str_strip(str_upper(sql)), kw)

\* C17 amended: after a permitted statement has been executed, the call takes
\* the fetch branch, with no commit, exactly when the upper-cased, stripped
\* statement text begins with SELECT, WITH, DESC, DESCRIBE or EXPLAIN, whether
\* or not the keyword ends the leading token; for every other statement it
\* commits and returns the summary row.
C17_FetchByPrefix ==
    (PipelineReturned /\ Executed) =>
        IF BeginsWithReadKeyword(call.sql) THEN FetchBranch ELSE CommitBranch

C17_Witness ==
    /\ Returned("execute_query")
    /\ security_mode = FULL_ACCESS
    /\ call.sql = KW_SELECT \o T_Star
    /\ Executed
    /\ FetchBranch
    /\ outcome.kind = "rows"

\* the positions at which the session directive was submitted
Directives == {i \in Positions("execute") : events[i].sql = ALTER_SESSION}

\* C18: under read_only every connection that is opened gets the session
\* directive as its first statement, before the caller's statement; under
\* limited_write and full_access the directive is never submitted, by
\* execute_safe_query and the schema probe no more than by execute_query.
C18_SessionDirective ==
    pc = "returned" =>
        /\ security_mode = READONLY =>
              /\ \A i \in 1..Len(events) :
                    events[i] = Did("connect") =>
                        /\ i + 2 <= Len(events)
                        /\ events[i + 1] = Did("cursor")
                        /\ i + 2 \in Directives
              /\ \A j \in Directives : j >= 3 /\ events[j - 2] = Did("connect")
              /\ \A j \in Positions("execute") \ Directives :
                    \E i \in Directives : i < j /\ events[i].ok
        /\ security_mode # READONLY => Directives = {}

C18_Witness ==
    /\ Returned("execute_safe_query")
    /\ security_mode = LIMITED_WRITE
    /\ Positions("connect") = {1}
    /\ Executed
    /\ Directives = {}

\* C19: one call attempts at most one connection and submits its statement at
\* most once; a request that fails at the driver is followed by closing the
\* cursor and the connection only, never by another attempt, and the call
\* raises the driver's error.
C19_NoRetry ==
    PipelineReturned =>
        /\ Cardinality(Positions("connect")) <= 1
        /\ Cardinality({i \in Positions("execute") : events[i].sql = call.sql}) <= 1
        /\ \A i \in 1..Len(events) :
              ~events[i].ok =>
                  /\ outcome = Raises(DriverError, NoMessage)
                  /\ \A j \in (i + 1)..Len(events) :
                        events[j].type \in {"cursor_close", "close"}

C19_Witness ==
    /\ Returned("execute_query")
    /\ \E i \in Positions("execute") : events[i].sql = call.sql /\ ~events[i].ok
    /\ Cardinality(Positions("connect")) = 1
    /\ Cardinality(Positions("execute") \ Directives) = 1
    /\ outcome = Raises(DriverError, NoMessage)

CatalogOps ==
    {"get_all_tables", "get_table_structure", "get_table_indexes", "get_table_constraints"}

CatalogReturned == pc = "returned" /\ call.op \in CatalogOps

\* the schema the finished catalog call asked about: its argument, or the
\* upper-cased user name when the argument was omitted
AskedSchema == IF call.schema = NONE THEN str_upper(username) ELSE call.schema

\* what the resolver answers, and asks of the driver, for the finished call
Verdict == is_schema_allowed(AskedSchema, call.probe)

\* the positions at which the finished call submitted a catalog statement
CatalogSubmitted ==
    {i \in Positions("execute") :
        events[i].sql \in {get_all_tables_sql, get_table_structure_sql,
                           get_table_indexes_sql, get_table_constraints_sql}}

\* the finished call raised the denial naming the schema it asked about and
\* the display form of the allowed set
DenialRaised ==
    /\ PolicyRejected
    /\ outcome.message.wording = "schema_not_allowed"
    /\ outcome.message.schema = AskedSchema
    /\ outcome.message.display = get_allowed_schemas_display

\* C13: each schema-scoped operation consults the resolver first, also when
\* the schema argument is omitted and the upper-cased user name stands in:
\* the resolver's requests open the call, a catalog statement comes only
\* after them and only when the resolver allowed the schema; when it rejected
\* the schema the call raises the denial naming the schema and the display
\* form of the allowed set, and no catalog statement is submitted.
C13_ResolverFirst ==
    CatalogReturned =>
        LET resolver == Verdict
        IN  /\ Len(resolver.events) <= Len(events)
            /\ SubSeq(events, 1, Len(resolver.events)) = resolver.events
            /\ \A i \in CatalogSubmitted : i > Len(resolver.events)
            /\ ~resolver.outcome.flag =>
                  /\ DenialRaised
                  /\ events = resolver.events
                  /\ CatalogSubmitted = {}
            /\ resolver.outcome.flag =>
                  /\ ~PolicyRejected
                  /\ Len(events) > Len(resolver.events)
                  /\ events[Len(resolver.events) + 1].type = "connect"

C13_Witness ==
    /\ Returned("get_all_tables")
    /\ call.schema = NONE
    /\ AutoDiscover
    /\ call.probe = NoDriver
    /\ DenialRaised
    /\ outcome.message.schema = N_HR
    /\ outcome.message.display.form = "auto"
    /\ Cardinality(Positions("execute") \ Directives) = 1
    /\ CatalogSubmitted = {}

\* a request made after the resolver's requests failed at the driver
CatalogFailed(resolver) ==
    \E i \in (Len(resolver.events) + 1)..Len(events) : ~events[i].ok

\* C20: when the schema is allowed and the catalog statement fails,
\* get_table_indexes and get_table_constraints return the empty list and
\* raise nothing; they raise only the denial of a rejected schema;
\* get_all_tables and get_table_structure raise the failure of their catalog
\* statement.
C20_SoftFailure ==
    CatalogReturned =>
        LET resolver == Verdict
        IN  /\ call.op \in {"get_table_indexes", "get_table_constraints"} =>
                  /\ resolver.outcome.flag => outcome.kind = "rows"
                  /\ (resolver.outcome.flag /\ CatalogFailed(resolver)) =>
                        outcome = ReturnsRows(<<>>)
                  /\ ~resolver.outcome.flag => DenialRaised
            /\ ( /\ call.op \in {"get_all_tables", "get_table_structure"}
                 /\ resolver.outcome.flag
                 /\ CatalogFailed(resolver) ) => outcome = Raises(DriverError, NoMessage)

C20_Witness ==
    /\ Returned("get_table_indexes")
    /\ call.drv.fault = "execute"
    /\ Verdict.outcome.flag
    /\ CatalogFailed(Verdict)
    /\ outcome = ReturnsRows(<<>>)

\* the operations that read the catalog or probe the database
IntrospectionOps ==
    CatalogOps \cup {"get_available_schemas", "test_connection", "is_schema_allowed"}

\* the statement texts the introspection operations are written with
IntrospectionTexts ==
    {get_all_tables_sql, get_table_structure_sql, get_table_indexes_sql,
     get_table_constraints_sql, get_available_schemas_sql, test_sql, test_connection_sql}

C22_ReadOnlyNeverCommits ==
    pc = "returned" =>
        /\ security_mode = READONLY => Positions("commit") = {}
        /\ (PipelineReturned /\ validate_sql(call.sql, READONLY)) =>
              Positions("commit") = {}
        /\ (PipelineReturned /\ security_mode = READONLY /\ Executed) => FetchBranch

C22_Witness ==
    /\ Returned("execute_query")
    /\ security_mode = READONLY
    /\ call.sql = KW_WITH \o T_OneFromDual
    /\ Executed
    /\ FetchBranch
    /\ outcome.kind = "rows"

\* C23 as stated: every text validate_sql permits under read_only it permits
\* under limited_write, and every text it permits under limited_write it
\* permits under full_access.
C23_TiersOrdered ==
    /\ (Validated(READONLY) /\ outcome.flag) => validate_sql(call.sql, LIMITED_WRITE)
    /\ (Validated(LIMITED_WRITE) /\ outcome.flag) => validate_sql(call.sql, FULL_ACCESS)

\* the upper-cased text holds one of the eight dangerous keywords somewhere
HoldsDangerousKeyword(sql) ==
    \E kw \in {KW_DELETE, KW_DROP, KW_CREATE, KW_ALTER, KW_TRUNCATE, KW_GRANT,
               KW_REVOKE, KW_PURGE} : Contains(str_upper(sql), kw)

\* C23 amended: every text permitted under read_only or under limited_write
\* is permitted under full_access; a text permitted under read_only is
\* permitted under limited_write exactly when it holds no dangerous keyword
\* anywhere, so read_only is not contained in limited_write.
C23_TiersOrderedUpToDangerous ==
    /\ ((Validated(READONLY) \/ Validated(LIMITED_WRITE)) /\ outcome.flag) =>
          validate_sql(call.sql, FULL_ACCESS)
    /\ (Validated(READONLY) /\ outcome.flag) =>
          (validate_sql(call.sql, LIMITED_WRITE) <=> ~HoldsDangerousKeyword(call.sql))

C23_Witness ==
    /\ Validated(READONLY)
    /\ call.sql = L_select \o T_CommentDrop
    /\ outcome.flag
    /\ ~validate_sql(call.sql, LIMITED_WRITE)
    /\ validate_sql(call.sql, FULL_ACCESS)

\* C24: a call commits at most once, and only right after its statement was
\* executed without an error; when the driver raises while executing the
\* statement, no commit is requested for that connection, the statement's
\* cursor is closed and then the connection, and the call raises the
\* driver's error.
C24_CommitAfterExecute ==
    PipelineReturned =>
        /\ Cardinality(Positions("commit")) <= 1
        /\ \A c \in Positions("commit") :
              /\ c > 1
              /\ events[c - 1].type = "execute"
              /\ events[c - 1].sql = call.sql
              /\ events[c - 1].ok
        /\ \A i \in Positions("execute") \ Directives :
              ~events[i].ok =>
                  /\ Positions("commit") = {}
                  /\ Len(events) = i + 2
                  /\ events[i + 1] = Did("cursor_close")
                  /\ events[i + 2] = Did("close")
                  /\ outcome = Raises(DriverError, NoMessage)

C24_Witness ==
    /\ Returned("execute_query")
    /\ security_mode = LIMITED_WRITE
    /\ call.sql = KW_INSERT \o T_IntoValues
    /\ call.drv.fault = "execute"
    /\ \E i \in Positions("execute") : events[i].sql = call.sql /\ ~events[i].ok
    /\ Positions("commit") = {}
    /\ outcome = Raises(DriverError, NoMessage)

\* the statement text of a finished call of execute_query or
\* get_available_schemas
OwnText == IF call.op = "execute_query" THEN call.sql ELSE get_available_schemas_sql

\* C25: execute_query and get_available_schemas never consult the schema
\* resolver: under every schema configuration they submit no probe, only
\* their own statement on one connection, and never raise a schema denial;
\* execute_query rejects exactly the texts the tier's validation rejects and
\* get_available_schemas rejects nothing, so the decision depends on the
\* tier and the text alone; under an allow-list a permitted SELECT on a table
\* of a schema outside the list is executed and returns its rows.
C25_SchemaPolicyFrame ==
    (pc = "returned" /\ call.op \in {"execute_query", "get_available_schemas"}) =>
        /\ \A i \in Positions("execute") \ Directives : events[i].sql = OwnText
        /\ Cardinality(Positions("connect")) <= 1
        /\ PolicyRejected => outcome.message.wording # "schema_not_allowed"
        /\ call.op = "execute_query" =>
              (PolicyRejected <=> ~validate_sql(call.sql, security_mode))
        /\ call.op = "get_available_schemas" => ~PolicyRejected
        /\ ~PolicyRejected => (events # <<>> /\ events[1].type = "connect")
        /\ ( /\ ExplicitAllowList
             /\ call.sql = KW_SELECT \o T_StarFromFinance
             /\ call.drv.fault = "none" ) =>
                /\ Executed
                /\ outcome.kind = "rows"

C25_Witness ==
    /\ Returned("execute_query")
    /\ security_mode = READONLY
    /\ allowed_schemas = <<N_HR>>
    /\ call.sql = KW_SELECT \o T_StarFromFinance
    /\ call.drv.fetched = 1
    /\ Executed
    /\ outcome.kind = "rows"
    /\ Len(outcome.rows) = 1

====
